---------------------------- MODULE Spec2Model ----------------------------
(***************************************************************************)
(* A model of the tmates interactive CLI: the session bootstrap and inline *)
(* login flow, the screen handlers and the navigator loop of               *)
(* src/cli/interactive.ts, over the auth bridge of src/auth and the        *)
(* session holder of src/storage/session-store.ts.                         *)
(*                                                                         *)
(* Text is modelled as a sequence of one-character strings, so that trim,  *)
(* toLowerCase, split and parseInt are computed rather than assumed.       *)
(***************************************************************************)
EXTENDS Integers, Sequences, FiniteSets, TLC

VARIABLES
  pc,             \* where launchInteractiveCli is: "start", "awaitEmail",
                  \* "awaitCode", "awaitCodeRetry", "nav", "thread", "done",
                  \* "noSession", "crashed"; "prompt", "inputEnded" and
                  \* "killed" where promptUser is followed on its own;
                  \* "print" while a fetched list
                  \* is being printed on its own
  isTTY,          \* output.isTTY, fixed by the environment
  isActive,       \* FixedBottomToolbar.isActive
  configured,     \* whether the identity-provider URL and key are configured
  persist,        \* shouldPersistSession(): the session cache is not disabled
  clientInit,     \* supabaseClient has been created and initialised
  currentSession, \* the module-level currentSession of the supabase client
  sessionFile,    \* the session file: the stored session, or NoSession
  session,        \* the const session of launchInteractiveCli
  stack,          \* the navigator's stack of previous screens
  current,        \* the navigator's current screen
  quit,           \* the navigator's quit flag
  lastAction,     \* what handleScreen returned last (a ScreenAction or a throw)
  lastCall,       \* which handler ran last and how its external calls ended
  tMessages,      \* handleMessageThread's local messages
  tTitle,         \* handleMessageThread's local title
  seenKeys,       \* handleMessageThread's local seenKeys
  conversationBuffer, \* handleMessageThread's local conversationBuffer: what
                  \* it has printed of the conversation, block by block,
                  \* where the thread view is followed against one server
  cachedId,       \* history: the thread last left by /back or /home with a
                  \* non-empty message cache written to its state and not
                  \* entered since, or "none"
  loginEmail,     \* the const email of the runInlineLogin invocation in progress
  events,         \* history: identity-provider calls and login prompts, in order
  pushed,         \* history: the screens pushed, in order
  nBack,          \* history: the number of back actions applied
  shape,          \* history: the form of the action sequence applied so far
  steps,          \* history: the number of actions applied to the bare navigator
  stdinTTY,       \* process.stdin is a TTY with setRawMode, fixed by the environment
  rawMode,        \* process.stdin is in raw mode
  readlines,      \* the promptUser calls whose readline interface is open
  dataListeners,  \* the promptUser calls whose handleKeypress listens to
                  \* 'data' on process.stdin
  sigintListeners,\* the promptUser calls whose listener is attached to
                  \* 'SIGINT' on process
  inputBuffer,    \* the inputBuffer of the promptUser call in progress
  prompts,        \* history: for each promptUser call, in order, its code
                  \* path, how it ended and what it returned
  toolbar,        \* the FixedBottomToolbar object (spinner, loadingText,
                  \* helpText), its pending setTimeout callbacks and what
                  \* the terminal shows of it
  handlerPath,    \* the toolbar calls and awaits the running handler still
                  \* has before it, where handlers are followed call by call
  serverThread    \* the thread as the server holds it, where the thread
                  \* view is followed against one server; AnyServer where
                  \* the endpoints may answer anything

vars == << pc, isTTY, isActive, configured, persist, clientInit, currentSession,
           sessionFile, session, stack, current, quit, lastAction, lastCall,
           tMessages, tTitle, seenKeys, conversationBuffer, cachedId, loginEmail,
           events, pushed, nBack, shape, steps, stdinTTY, rawMode, readlines,
           dataListeners, sigintListeners, inputBuffer, prompts, toolbar,
           handlerPath, serverThread >>

envVars   == << isTTY, configured, persist >>
authVars  == << clientInit, currentSession, sessionFile >>
navVars   == << stack, current, quit, lastAction, lastCall >>
threadVars == << tMessages, tTitle, seenKeys, conversationBuffer, cachedId >>
loginVars == << loginEmail, events >>
histVars  == << pushed, nBack, shape, steps >>
toolbarVars == << toolbar, handlerPath >>
serverVars == << serverThread >>
uiVars == << stdinTTY, rawMode, readlines, dataListeners, sigintListeners,
            inputBuffer, prompts, toolbarVars >>
promptVars == << uiVars, serverVars >>

-----------------------------------------------------------------------------
(* Bounds of the model *)

MaxNavSteps == 4      \* actions applied to the bare navigator
MaxEvents == 11         \* login events recorded before the flow is cut off
MaxMessages == 3        \* messages in a thread, past which nothing is sent
MaxFetched == 3         \* messages in a fetched list that is printed on its own
MaxPrompts == 3         \* promptUser calls made one after the other
MaxTyped == 2           \* characters typed into one prompt
MaxViewRounds == 2      \* rounds of the prompt loop of a thread view that is followed
MaxReplies == 1         \* replies the server stores while a poll is under way
MaxAhead == 1           \* messages the server may hold beyond those of the view
MaxHandlerRuns == 2     \* handlers followed call by call, one after the other
MaxAuthCalls == 3       \* calls made on the auth bridge in one process

-----------------------------------------------------------------------------
(* Values *)

\* The server: either the endpoints answer anything, each call on its own, or
\* they answer from one thread.
AnyServer == [kind |-> "any", title |-> << >>, messages |-> << >>]
OneServer(title, messages) ==
  [kind |-> "one", title |-> title, messages |-> messages]
Followed == serverThread.kind = "one"

NoSession == "null"
Sessions == {"s1", "s2"}

NoAction == [type |-> "none"]
NoCall == [handler |-> "none", loads |-> << >>, calls |-> << >>]

\* A line of the terminal, by what it holds: a status message (id > 0), a
\* line of the content area, the status line of the toolbar, or the prompt
\* line.
Line(kind, id) == [kind |-> kind, id |-> id]

\* The toolbar as constructed (layout.ts 13-17), on a terminal that shows
\* nothing of it yet.
IdleToolbar ==
  [spinner |-> FALSE, loadingText |-> "null", helpText |-> "default",
   issued |-> 0, timers |-> {}, messages |-> {}, above |-> Line("content", 0),
   reverted |-> [by |-> 0, line |-> Line("none", 0), superseded |-> FALSE]]

-----------------------------------------------------------------------------
(* Text: a string is a sequence of one-character strings *)

\* What promptUser resolves to on Ctrl+C: null, which is no string.
Cancelled == << "<null>" >>

LowerAlpha == << "a", "b", "c", "d", "e", "f", "g", "h", "i", "j", "k", "l", "m",
                 "n", "o", "p", "q", "r", "s", "t", "u", "v", "w", "x", "y", "z" >>
UpperAlpha == << "A", "B", "C", "D", "E", "F", "G", "H", "I", "J", "K", "L", "M",
                 "N", "O", "P", "Q", "R", "S", "T", "U", "V", "W", "X", "Y", "Z" >>
Digits == << "0", "1", "2", "3", "4", "5", "6", "7", "8", "9" >>

IsSpace(c) == c \in {" ", "\t"}

DigitOf == [c \in {Digits[i] : i \in 1..10} |->
              (CHOOSE i \in 1..10 : Digits[i] = c) - 1]
IsDigit(c) == c \in DOMAIN DigitOf
DigitValue(c) == DigitOf[c]

LowerOf == [c \in {UpperAlpha[i] : i \in 1..26} |->
              LowerAlpha[CHOOSE i \in 1..26 : UpperAlpha[i] = c]]
LowerChar(c) == IF c \in DOMAIN LowerOf THEN LowerOf[c] ELSE c

\* String.prototype.toLowerCase
ToLowerCase(s) == [i \in 1..Len(s) |-> LowerChar(s[i])]

RECURSIVE TrimStart(_)
TrimStart(s) ==
  IF Len(s) > 0 /\ IsSpace(s[1]) THEN TrimStart(Tail(s)) ELSE s

RECURSIVE TrimEnd(_)
TrimEnd(s) ==
  IF Len(s) > 0 /\ IsSpace(s[Len(s)])
    THEN TrimEnd(SubSeq(s, 1, Len(s) - 1)) ELSE s

\* String.prototype.trim
Trim(s) == TrimEnd(TrimStart(s))

\* The length of the longest prefix of s made of digits.
RECURSIVE DigitPrefixLen(_)
DigitPrefixLen(s) ==
  IF Len(s) > 0 /\ IsDigit(s[1]) THEN 1 + DigitPrefixLen(Tail(s)) ELSE 0

\* The value of a string of digits.
RECURSIVE DigitsValue(_)
DigitsValue(s) ==
  IF Len(s) = 0 THEN 0
  ELSE 10 * DigitsValue(SubSeq(s, 1, Len(s) - 1)) + DigitValue(s[Len(s)])

NaN == [nan |-> TRUE, int |-> FALSE, value |-> 0]
Num(v) == [nan |-> FALSE, int |-> TRUE, value |-> v]
Fraction(v) == [nan |-> FALSE, int |-> FALSE, value |-> v]

\* parseInt(s, 10): leading white space is skipped, then an optional sign and
\* the longest run of digits are read; NaN when there is no digit.
ParseInt(s) ==
  LET t == TrimStart(s)
      signed == Len(t) > 0 /\ t[1] \in {"+", "-"}
      u == IF signed THEN Tail(t) ELSE t
      n == DigitPrefixLen(u)
      v == DigitsValue(SubSeq(u, 1, n))
  IN IF n = 0 THEN NaN
     ELSE IF signed /\ t[1] = "-" THEN Num(0 - v) ELSE Num(v)

\* Number(s) for decimal literals: white space is trimmed, the empty string is
\* 0, an optional sign, digits and an optional fraction are read, and anything
\* else is NaN.  value is the integer part; int tells whether the number is an
\* integer (Number.isInteger).
NumberOf(s) ==
  LET t == Trim(s)
      signed == Len(t) > 0 /\ t[1] \in {"+", "-"}
      u == IF signed THEN Tail(t) ELSE t
      n == DigitPrefixLen(u)
      v == DigitsValue(SubSeq(u, 1, n))
      sv == IF signed /\ t[1] = "-" THEN 0 - v ELSE v
      rest == SubSeq(u, n + 1, Len(u))
      frac == IF Len(rest) > 0 THEN Tail(rest) ELSE << >>
  IN IF Len(t) = 0 THEN Num(0)
     ELSE IF signed /\ Len(u) = 0 THEN NaN
     ELSE IF Len(rest) = 0 THEN (IF n = 0 THEN NaN ELSE Num(sv))
     ELSE IF rest[1] # "." THEN NaN
     ELSE IF DigitPrefixLen(frac) # Len(frac) THEN NaN
     ELSE IF n = 0 /\ Len(frac) = 0 THEN NaN
     ELSE IF DigitsValue(frac) = 0 THEN Num(sv)
     ELSE Fraction(sv)

\* s.split(/\s+/): the maximal runs of non-space characters, with an empty
\* first (last) piece when s starts (ends) with white space.
RECURSIVE SplitFrom(_, _, _)
SplitFrom(s, piece, inGap) ==
  IF Len(s) = 0 THEN << piece >>
  ELSE IF IsSpace(s[1])
    THEN IF inGap THEN SplitFrom(Tail(s), piece, TRUE)
         ELSE << piece >> \o SplitFrom(Tail(s), << >>, TRUE)
    ELSE SplitFrom(Tail(s), Append(piece, s[1]), FALSE)

SplitSpaces(s) == SplitFrom(s, << >>, FALSE)

-----------------------------------------------------------------------------
(* ScreenState and ScreenAction, interactive.ts 106-129 *)

HomeScreen(s) == [type |-> "home", session |-> s]
PinboardScreen == [type |-> "pinboard", limit |-> 10]
PinboardDetailScreen(post) == [type |-> "pinboard-detail", post |-> post]
TeammatesScreen == [type |-> "teammates"]
MessagesScreen == [type |-> "messages"]
FilesScreen == [type |-> "files", limit |-> 25]
SettingsScreen == [type |-> "settings"]

Push(screen) == [type |-> "push", screen |-> screen]
Replace(screen) == [type |-> "replace", screen |-> screen]
Stay == [type |-> "stay"]
StayOn(screen) == [type |-> "stay", screen |-> screen]
Back == [type |-> "back"]
Home == [type |-> "home"]
Quit == [type |-> "quit"]
Throw == [type |-> "throw"]

ActionTypes == {"push", "replace", "stay", "back", "home", "quit"}

-----------------------------------------------------------------------------
(* The navigator loop of launchInteractiveCli, interactive.ts 65-104 *)

Pop(st) == SubSeq(st, 1, Len(st) - 1)

\* Faulty switches, to compare the navigator against.
\* push stores the screen navigated to instead of the one left.
ApplyActionPushTarget(st, cur, sess, action) ==
  CASE action.type = "push" ->
         [stack |-> Append(st, action.screen), current |-> action.screen,
          quit |-> FALSE]
    [] action.type \in {"replace", "stay"} ->
         [stack |-> st,
          current |-> IF "screen" \in DOMAIN action THEN action.screen ELSE cur,
          quit |-> FALSE]
    [] action.type = "back" ->
         IF Len(st) > 0
           THEN [stack |-> Pop(st), current |-> st[Len(st)], quit |-> FALSE]
           ELSE [stack |-> st, current |-> HomeScreen(sess), quit |-> FALSE]
    [] action.type = "home" ->
         [stack |-> << >>, current |-> HomeScreen(sess), quit |-> FALSE]
    [] action.type = "quit" ->
         [stack |-> st, current |-> cur, quit |-> TRUE]

\* home forgets to empty the stack.
ApplyActionHomeKeepsStack(st, cur, sess, action) ==
  CASE action.type = "push" ->
         [stack |-> Append(st, cur), current |-> action.screen, quit |-> FALSE]
    [] action.type \in {"replace", "stay"} ->
         [stack |-> st,
          current |-> IF "screen" \in DOMAIN action THEN action.screen ELSE cur,
          quit |-> FALSE]
    [] action.type = "back" ->
         IF Len(st) > 0
           THEN [stack |-> Pop(st), current |-> st[Len(st)], quit |-> FALSE]
           ELSE [stack |-> st, current |-> HomeScreen(sess), quit |-> FALSE]
    [] action.type = "home" ->
         [stack |-> st, current |-> HomeScreen(sess), quit |-> FALSE]
    [] action.type = "quit" ->
         [stack |-> st, current |-> cur, quit |-> TRUE]

\* back takes the oldest entry (shift) instead of the newest (pop).
ApplyActionBackShifts(st, cur, sess, action) ==
  CASE action.type = "push" ->
         [stack |-> Append(st, cur), current |-> action.screen, quit |-> FALSE]
    [] action.type \in {"replace", "stay"} ->
         [stack |-> st,
          current |-> IF "screen" \in DOMAIN action THEN action.screen ELSE cur,
          quit |-> FALSE]
    [] action.type = "back" ->
         IF Len(st) > 0
           THEN [stack |-> Tail(st), current |-> st[1], quit |-> FALSE]
           ELSE [stack |-> st, current |-> HomeScreen(sess), quit |-> FALSE]
    [] action.type = "home" ->
         [stack |-> << >>, current |-> HomeScreen(sess), quit |-> FALSE]
    [] action.type = "quit" ->
         [stack |-> st, current |-> cur, quit |-> TRUE]

\* home lacks its break and falls through to quit.
ApplyActionHomeFallsThrough(st, cur, sess, action) ==
  CASE action.type = "push" ->
         [stack |-> Append(st, cur), current |-> action.screen, quit |-> FALSE]
    [] action.type \in {"replace", "stay"} ->
         [stack |-> st,
          current |-> IF "screen" \in DOMAIN action THEN action.screen ELSE cur,
          quit |-> FALSE]
    [] action.type = "back" ->
         IF Len(st) > 0
           THEN [stack |-> Pop(st), current |-> st[Len(st)], quit |-> FALSE]
           ELSE [stack |-> st, current |-> HomeScreen(sess), quit |-> FALSE]
    [] action.type = "home" ->
         [stack |-> << >>, current |-> HomeScreen(sess), quit |-> TRUE]
    [] action.type = "quit" ->
         [stack |-> st, current |-> cur, quit |-> TRUE]

\* The switch on action.type: the stack, current screen and quit flag it leaves.
ApplyAction(st, cur, sess, action) ==
  CASE action.type = "push" ->
         [stack |-> Append(st, cur), current |-> action.screen, quit |-> FALSE]
    [] action.type = "replace" ->
         [stack |-> st, current |-> action.screen, quit |-> FALSE]
    [] action.type = "stay" ->
         [stack |-> st,
          current |-> IF "screen" \in DOMAIN action THEN action.screen ELSE cur,
          quit |-> FALSE]
    [] action.type = "back" ->
         IF Len(st) > 0
           THEN [stack |-> Pop(st), current |-> st[Len(st)], quit |-> FALSE]
           ELSE [stack |-> st, current |-> HomeScreen(sess), quit |-> FALSE]
    [] action.type = "home" ->
         [stack |-> << >>, current |-> HomeScreen(sess), quit |-> FALSE]
    [] action.type = "quit" ->
         [stack |-> st, current |-> cur, quit |-> TRUE]

\* One turn of the while loop once handleScreen has settled: a returned action
\* is applied and, on quit, the loop ends and toolbar.cleanup() runs; a
\* rejection leaves launchInteractiveCli before the switch and the cleanup.
\* cur is the current screen as the handler left it (handleMessageThread
\* writes to its state object).
Navigate(cur, action) ==
  /\ lastAction' = action
  /\ IF action.type = "throw"
       THEN /\ pc' = "crashed"
            /\ current' = cur
            /\ UNCHANGED << stack, quit, isActive >>
       ELSE LET r == ApplyAction(stack, cur, session, action) IN
            /\ stack' = r.stack
            /\ current' = r.current
            /\ quit' = r.quit
            /\ pc' = IF r.quit THEN "done" ELSE "nav"
            /\ isActive' = IF r.quit THEN FALSE ELSE isActive

-----------------------------------------------------------------------------
(* The session holder and the auth bridge:                                 *)
(* storage/session-store.ts 75-173 and auth/supabase-auth.ts               *)

\* History records.
IdpCall(op, email, result) ==
  [kind |-> "idp", op |-> op, email |-> email, result |-> result]
Prompted(step, email) == [kind |-> "prompt", step |-> step, email |-> email]
Entered(step, what) == [kind |-> "input", step |-> step, what |-> what]

AuthState == [clientInit |-> clientInit, currentSession |-> currentSession,
              sessionFile |-> sessionFile]

\* What the identity provider may answer where a session is expected.
SessionOutcomes == Sessions \cup {NoSession, "error"}

\* A session file that holds no session with both tokens, or cannot be read
\* or parsed: loadStoredSession gives null or throws, and tryRestoreSession
\* returns without asking the provider (lines 137-140, 154-156).
Unusable == "unusable"

\* A faulty variant, to compare against: the file is written whether or not
\* caching is enabled.
UpdateSessionAlwaysPersists(a, s) ==
  [a EXCEPT !.currentSession = s, !.sessionFile = s]

\* updateSession(session)
UpdateSession(a, s) ==
  [a EXCEPT !.currentSession = s,
            !.sessionFile = IF persist THEN s ELSE @]

\* tryRestoreSession(client): without a usable stored session nothing is
\* asked; otherwise setSession answers an error (the file is deleted) or a
\* session, which may be null.
TryRestoreSession(a, restored) ==
  IF ~persist \/ a.sessionFile \in {NoSession, Unusable}
    THEN [auth |-> a, events |-> << >>]
    ELSE [auth |-> IF restored = "error"
                     THEN [a EXCEPT !.sessionFile = NoSession]
                     ELSE [a EXCEPT !.currentSession = restored],
          events |-> << IdpCall("setSession", << >>, restored) >>]

\* getSupabaseClient(): the client is created once; creating it throws when
\* the provider is not configured, and restores the stored session otherwise.
GetSupabaseClient(a, restored) ==
  IF a.clientInit THEN [auth |-> a, events |-> << >>, threw |-> FALSE]
  ELSE IF ~configured THEN [auth |-> a, events |-> << >>, threw |-> TRUE]
  ELSE LET r == TryRestoreSession(a, restored) IN
       [auth |-> [r.auth EXCEPT !.clientInit = TRUE], events |-> r.events,
        threw |-> FALSE]

\* sendOtp(email)
SendOtp(a, restored, email, answer) ==
  LET c == GetSupabaseClient(a, restored) IN
  IF c.threw THEN [auth |-> c.auth, events |-> c.events, threw |-> TRUE]
  ELSE [auth |-> c.auth,
        events |-> Append(c.events,
                     IdpCall("signInWithOtp", ToLowerCase(Trim(email)), answer)),
        threw |-> answer = "error"]

\* verifyOtp(email, token)
VerifyOtp(a, restored, email, token, answer) ==
  LET c == GetSupabaseClient(a, restored)
      call == IdpCall("verifyOtp", ToLowerCase(Trim(email)), answer)
  IN
  IF c.threw
    THEN [auth |-> c.auth, events |-> c.events, threw |-> TRUE,
          result |-> NoSession]
  ELSE IF answer \in {"error", NoSession}
    THEN [auth |-> c.auth, events |-> Append(c.events, call), threw |-> TRUE,
          result |-> NoSession]
  ELSE [auth |-> UpdateSession(c.auth, answer),
        events |-> Append(c.events, call), threw |-> FALSE, result |-> answer]

\* refreshSession()
RefreshSession(a, restored, answer) ==
  LET c == GetSupabaseClient(a, restored)
      call == IdpCall("getSession", << >>, answer)
  IN
  IF c.threw
    THEN [auth |-> c.auth, events |-> c.events, threw |-> TRUE,
          result |-> NoSession]
  ELSE IF answer = "error"
    THEN [auth |-> c.auth, events |-> Append(c.events, call), threw |-> TRUE,
          result |-> NoSession]
  ELSE [auth |-> IF answer # NoSession THEN UpdateSession(c.auth, answer)
                 ELSE c.auth,
        events |-> Append(c.events, call), threw |-> FALSE, result |-> answer]

\* A faulty signOut, to compare against: the session is dropped before the
\* provider's answer is looked at.
SignOutDropsFirst(a, restored, answer) ==
  LET c == GetSupabaseClient(a, restored)
      call == IdpCall("signOut", << >>, answer)
  IN
  IF c.threw THEN [auth |-> c.auth, events |-> c.events, threw |-> TRUE]
  ELSE [auth |-> UpdateSession(c.auth, NoSession),
        events |-> Append(c.events, call), threw |-> answer = "error"]

\* signOut()
SignOut(a, restored, answer) ==
  LET c == GetSupabaseClient(a, restored)
      call == IdpCall("signOut", << >>, answer)
  IN
  IF c.threw THEN [auth |-> c.auth, events |-> c.events, threw |-> TRUE]
  ELSE IF answer = "error"
    THEN [auth |-> c.auth, events |-> Append(c.events, call), threw |-> TRUE]
  ELSE [auth |-> UpdateSession(c.auth, NoSession),
        events |-> Append(c.events, call), threw |-> FALSE]

\* The listener given to onAuthStateChange.
OnAuthStateChange(a, s) ==
  [a EXCEPT !.currentSession = s,
            !.sessionFile = IF persist THEN s ELSE @]

\* getActiveSession()
GetActiveSession(a) == a.currentSession

SetAuth(a) ==
  /\ clientInit' = a.clientInit
  /\ currentSession' = a.currentSession
  /\ sessionFile' = a.sessionFile

-----------------------------------------------------------------------------
(* Session bootstrap and the inline login flow, interactive.ts 50-63, 131-249 *)

NoScreen == [type |-> "none"]

EmailInputs == { << >>, << " " >>, << "a" >>, << " ", "A", " " >>, << "b" >> }
CodeInputs == { << >>, << "\t" >>, << "1" >>, << " ", "1" >> }

\* What the input is to the flow: cancelled, blank or a text.
InputKind(input) ==
  IF input = Cancelled THEN "cancelled"
  ELSE IF Trim(input) = << >> THEN "blank" ELSE "text"

\* A faulty bootstrap, to compare against: it refreshes before it looks at
\* the session in memory.
EnsureInteractiveSessionRefreshesFirst(a, restored, answer) ==
  LET r == RefreshSession(a, restored, answer) IN
  IF ~r.threw /\ r.result # NoSession
    THEN [auth |-> r.auth, events |-> r.events, login |-> FALSE,
          result |-> r.result]
  ELSE IF GetActiveSession(r.auth) # NoSession
    THEN [auth |-> r.auth, events |-> r.events, login |-> FALSE,
          result |-> GetActiveSession(r.auth)]
  ELSE [auth |-> r.auth, events |-> r.events, login |-> TRUE,
        result |-> NoSession]

\* ensureInteractiveSession(): the session it returns, or that it goes on to
\* runInlineLogin (login), with the calls made on the way.
EnsureInteractiveSession(a, restored, answer) ==
  IF GetActiveSession(a) # NoSession
    THEN [auth |-> a, events |-> << >>, login |-> FALSE,
          result |-> GetActiveSession(a)]
    ELSE LET r == RefreshSession(a, restored, answer) IN
         IF ~r.threw /\ r.result # NoSession
           THEN [auth |-> r.auth, events |-> r.events, login |-> FALSE,
                 result |-> r.result]
           ELSE [auth |-> r.auth, events |-> r.events, login |-> TRUE,
                 result |-> NoSession]

\* launchInteractiveCli once a session is there: the navigator starts on Home.
EnterNavigator(s) ==
  /\ session' = s
  /\ stack' = << >>
  /\ current' = HomeScreen(s)
  /\ quit' = FALSE
  /\ pc' = "nav"
  /\ UNCHANGED isActive

\* launchInteractiveCli without a session: a message, toolbar.cleanup(), return.
LeaveWithoutSession ==
  /\ pc' = "noSession"
  /\ isActive' = FALSE
  /\ UNCHANGED << session, stack, current, quit >>

\* A faulty email step, to compare against: a cancelled prompt is taken for a
\* blank email.
RunInlineLoginCancelIsBlank(a, restored, input, answer) ==
  LET email == IF input = Cancelled THEN << >> ELSE Trim(input)
      typed == Entered("email", InputKind(input))
  IN
  IF email = << >>
    THEN [auth |-> a, events |-> << typed, Prompted("email", << >>) >>,
          next |-> "awaitEmail", email |-> << >>]
  ELSE LET r == SendOtp(a, restored, email, answer) IN
       IF r.threw
         THEN [auth |-> r.auth,
               events |-> << typed >> \o r.events
                            \o << Prompted("email", << >>) >>,
               next |-> "awaitEmail", email |-> << >>]
         ELSE [auth |-> r.auth,
               events |-> << typed >> \o r.events
                            \o << Prompted("code", email) >>,
               next |-> "awaitCode", email |-> email]

\* A faulty email step, to compare against: a failed send goes on to the
\* passcode prompt.
RunInlineLoginSendFailureGoesOn(a, restored, input, answer) ==
  LET email == Trim(input)
      typed == Entered("email", InputKind(input))
  IN
  IF input = Cancelled
    THEN [auth |-> a, events |-> << typed >>, next |-> "noSession",
          email |-> << >>]
  ELSE IF email = << >>
    THEN [auth |-> a, events |-> << typed, Prompted("email", << >>) >>,
          next |-> "awaitEmail", email |-> << >>]
  ELSE LET r == SendOtp(a, restored, email, answer) IN
       [auth |-> r.auth,
        events |-> << typed >> \o r.events \o << Prompted("code", email) >>,
        next |-> "awaitCode", email |-> email]

\* runInlineLogin() from its email prompt to its next prompt or return:
\* next is where the flow goes.
RunInlineLogin(a, restored, input, answer) ==
  LET email == Trim(input)
      typed == Entered("email", InputKind(input))
  IN
  IF input = Cancelled
    THEN [auth |-> a, events |-> << typed >>, next |-> "noSession",
          email |-> << >>]
  ELSE IF email = << >>
    THEN [auth |-> a, events |-> << typed, Prompted("email", << >>) >>,
          next |-> "awaitEmail", email |-> << >>]
  ELSE LET r == SendOtp(a, restored, email, answer) IN
       IF r.threw
         THEN [auth |-> r.auth,
               events |-> << typed >> \o r.events
                            \o << Prompted("email", << >>) >>,
               next |-> "awaitEmail", email |-> << >>]
         ELSE [auth |-> r.auth,
               events |-> << typed >> \o r.events
                            \o << Prompted("code", email) >>,
               next |-> "awaitCode", email |-> email]

\* A faulty passcode step, to compare against: a blank passcode restarts the
\* flow from the email prompt.
RunInlineLoginCodeBlankRestarts(a, restored, email, input, answer) ==
  LET otp == Trim(input)
      typed == Entered("code", InputKind(input))
  IN
  IF input = Cancelled
    THEN [auth |-> a, events |-> << typed >>, next |-> "noSession",
          result |-> NoSession]
  ELSE IF otp = << >>
    THEN [auth |-> a, events |-> << typed, Prompted("email", << >>) >>,
          next |-> "awaitEmail", result |-> NoSession]
  ELSE LET r == VerifyOtp(a, restored, email, otp, answer) IN
       IF r.threw
         THEN [auth |-> r.auth,
               events |-> << typed >> \o r.events
                            \o << Prompted("codeRetry", email) >>,
               next |-> "awaitCodeRetry", result |-> NoSession]
         ELSE [auth |-> r.auth, events |-> << typed >> \o r.events,
               next |-> "nav", result |-> r.result]

\* runInlineLogin() from its passcode prompt (186) on.
RunInlineLoginCode(a, restored, email, input, answer) ==
  LET otp == Trim(input)
      typed == Entered("code", InputKind(input))
  IN
  IF input = Cancelled
    THEN [auth |-> a, events |-> << typed >>, next |-> "noSession",
          result |-> NoSession]
  ELSE IF otp = << >>
    THEN [auth |-> a, events |-> << typed, Prompted("codeRetry", email) >>,
          next |-> "awaitCodeRetry", result |-> NoSession]
  ELSE LET r == VerifyOtp(a, restored, email, otp, answer) IN
       IF r.threw
         THEN [auth |-> r.auth,
               events |-> << typed >> \o r.events
                            \o << Prompted("codeRetry", email) >>,
               next |-> "awaitCodeRetry", result |-> NoSession]
         ELSE [auth |-> r.auth, events |-> << typed >> \o r.events,
               next |-> "nav", result |-> r.result]

\* A faulty retry step, to compare against: a failed verification restarts
\* the flow from the email prompt.
RunInlineLoginOtpStepFailureRestarts(a, restored, email, input, answer) ==
  LET otp == Trim(input)
      typed == Entered("codeRetry", InputKind(input))
  IN
  IF input = Cancelled
    THEN [auth |-> a, events |-> << typed >>, next |-> "noSession",
          result |-> NoSession]
  ELSE IF otp = << >>
    THEN [auth |-> a, events |-> << typed, Prompted("codeRetry", email) >>,
          next |-> "awaitCodeRetry", result |-> NoSession]
  ELSE LET r == VerifyOtp(a, restored, email, otp, answer) IN
       IF r.threw
         THEN [auth |-> r.auth,
               events |-> << typed >> \o r.events
                            \o << Prompted("email", << >>) >>,
               next |-> "awaitEmail", result |-> NoSession]
         ELSE [auth |-> r.auth, events |-> << typed >> \o r.events,
               next |-> "nav", result |-> r.result]

\* No promptUser call has been made; the input-reading resources of the
\* prompts are followed on their own, further down.
NoPrompt ==
  /\ stdinTTY = TRUE
  /\ rawMode = FALSE
  /\ readlines = {}
  /\ dataListeners = {}
  /\ sigintListeners = {}
  /\ inputBuffer = << >>
  /\ prompts = << >>
  /\ toolbar = IdleToolbar
  /\ handlerPath = << >>
  /\ serverThread = AnyServer

\* runInlineLoginOtpStep(email)
RunInlineLoginOtpStep(a, restored, email, input, answer) ==
  LET otp == Trim(input)
      typed == Entered("codeRetry", InputKind(input))
  IN
  IF input = Cancelled
    THEN [auth |-> a, events |-> << typed >>, next |-> "noSession",
          result |-> NoSession]
  ELSE IF otp = << >>
    THEN [auth |-> a, events |-> << typed, Prompted("codeRetry", email) >>,
          next |-> "awaitCodeRetry", result |-> NoSession]
  ELSE LET r == VerifyOtp(a, restored, email, otp, answer) IN
       IF r.threw
         THEN [auth |-> r.auth,
               events |-> << typed >> \o r.events
                            \o << Prompted("codeRetry", email) >>,
               next |-> "awaitCodeRetry", result |-> NoSession]
         ELSE [auth |-> r.auth, events |-> << typed >> \o r.events,
               next |-> "nav", result |-> r.result]

LoginInit ==
  /\ pc = "start"
  /\ NoPrompt
  /\ isTTY \in BOOLEAN
  /\ isActive = FALSE
  /\ configured \in BOOLEAN
  /\ persist \in BOOLEAN
  \* A fresh process, or one in which an earlier auth call left a session.
  /\ \/ /\ clientInit = FALSE
        /\ currentSession = NoSession
        /\ sessionFile \in Sessions \cup {NoSession}
     \/ /\ clientInit = TRUE
        /\ configured
        /\ currentSession \in Sessions
        /\ sessionFile = IF persist THEN currentSession ELSE NoSession
  /\ session = NoSession
  /\ stack = << >>
  /\ current = NoScreen
  /\ quit = FALSE
  /\ lastAction = NoAction
  /\ lastCall = NoCall
  /\ tMessages = << >>
  /\ tTitle = << >>
  /\ seenKeys = {}
  /\ conversationBuffer = << >>
  /\ cachedId = "none"
  /\ loginEmail = << >>
  /\ events = << >>
  /\ pushed = << >>
  /\ nBack = 0
  /\ shape = "pushes"
  /\ steps = 0

\* launchInteractiveCli up to its first prompt: toolbar.init() and
\* ensureInteractiveSession().
Launch ==
  /\ pc = "start"
  /\ \E restored \in SessionOutcomes, answer \in SessionOutcomes :
       LET r == EnsureInteractiveSession(AuthState, restored, answer) IN
       /\ SetAuth(r.auth)
       /\ IF r.login
            THEN /\ pc' = "awaitEmail"
                 /\ events' = events \o r.events \o << Prompted("email", << >>) >>
                 /\ isActive' = isTTY
                 /\ UNCHANGED << session, stack, current, quit >>
            ELSE /\ events' = events \o r.events
                 /\ session' = r.result
                 /\ stack' = << >>
                 /\ current' = HomeScreen(r.result)
                 /\ quit' = FALSE
                 /\ pc' = "nav"
                 /\ isActive' = isTTY
  /\ UNCHANGED << envVars, promptVars, lastAction, lastCall, threadVars, loginEmail, histVars >>

AwaitEmail ==
  /\ pc = "awaitEmail"
  /\ Len(events) < MaxEvents
  /\ \E input \in EmailInputs \cup {Cancelled}, answer \in {"ok", "error"},
        restored \in SessionOutcomes :
       LET r == RunInlineLogin(AuthState, restored, input, answer) IN
       /\ SetAuth(r.auth)
       /\ events' = events \o r.events
       /\ loginEmail' = r.email
       /\ IF r.next = "noSession"
            THEN LeaveWithoutSession
            ELSE /\ pc' = r.next
                 /\ UNCHANGED << session, stack, current, quit, isActive >>
  /\ UNCHANGED << envVars, promptVars, lastAction, lastCall, threadVars, histVars >>

AwaitCode ==
  /\ pc = "awaitCode"
  /\ Len(events) < MaxEvents
  /\ \E input \in CodeInputs \cup {Cancelled}, answer \in SessionOutcomes,
        restored \in SessionOutcomes :
       LET r == RunInlineLoginCode(AuthState, restored, loginEmail, input, answer) IN
       /\ SetAuth(r.auth)
       /\ events' = events \o r.events
       /\ CASE r.next = "noSession" -> LeaveWithoutSession
            [] r.next = "nav" -> EnterNavigator(r.result)
            [] OTHER -> /\ pc' = r.next
                        /\ UNCHANGED << session, stack, current, quit, isActive >>
  /\ UNCHANGED << envVars, promptVars, lastAction, lastCall, threadVars, loginEmail, histVars >>

AwaitCodeRetry ==
  /\ pc = "awaitCodeRetry"
  /\ Len(events) < MaxEvents
  /\ \E input \in CodeInputs \cup {Cancelled}, answer \in SessionOutcomes,
        restored \in SessionOutcomes :
       LET r == RunInlineLoginOtpStep(AuthState, restored, loginEmail, input, answer) IN
       /\ SetAuth(r.auth)
       /\ events' = events \o r.events
       /\ CASE r.next = "noSession" -> LeaveWithoutSession
            [] r.next = "nav" -> EnterNavigator(r.result)
            [] OTHER -> /\ pc' = r.next
                        /\ UNCHANGED << session, stack, current, quit, isActive >>
  /\ UNCHANGED << envVars, promptVars, lastAction, lastCall, threadVars, loginEmail, histVars >>

LoginNext == Launch \/ AwaitEmail \/ AwaitCode \/ AwaitCodeRetry

LoginSpec == LoginInit /\ [][LoginNext]_vars

-----------------------------------------------------------------------------
(* The screen handlers, interactive.ts 251-1055 *)

SlashQuit == << "/", "q", "u", "i", "t" >>
SlashExit == << "/", "e", "x", "i", "t" >>
SlashBack == << "/", "b", "a", "c", "k" >>
SlashHome == << "/", "h", "o", "m", "e" >>
SlashRefresh == << "/", "r", "e", "f", "r", "e", "s", "h" >>
SlashR == << "/", "r" >>
WordPinboard == << "p", "i", "n", "b", "o", "a", "r", "d" >>
WordTeammates == << "t", "e", "a", "m", "m", "a", "t", "e", "s" >>
WordMessages == << "m", "e", "s", "s", "a", "g", "e", "s" >>
WordFiles == << "f", "i", "l", "e", "s" >>
WordSettings == << "s", "e", "t", "t", "i", "n", "g", "s" >>
WordAdd == << "a", "d", "d" >>
WordRemove == << "r", "e", "m", "o", "v", "e" >>
WordNew == << "n", "e", "w" >>
WordDelete == << "d", "e", "l", "e", "t", "e" >>
WordClear == << "c", "l", "e", "a", "r" >>

\* The lines a user may submit at a screen's prompt.
Lines ==
  { << >>,
    << " " >>,
    << "/", "q", "u", "i", "t" >>,
    << " ", "/", "Q", "U", "I", "T", " " >>,
    << "/", "e", "x", "i", "t" >>,
    << "/", "b", "a", "c", "k" >>,
    << "/", "B", "a", "c", "k" >>,
    << "/", "h", "o", "m", "e" >>,
    << "/", "H", "O", "M", "E" >>,
    << "/", "r", "e", "f", "r", "e", "s", "h" >>,
    << "/", "r" >>,
    << "1" >>,
    << "2" >>,
    << "3" >>,
    << "4" >>,
    << "5" >>,
    << "7" >>,
    << "0" >>,
    << "2", "x" >>,
    << "3", ".", "0" >>,
    << "p", "i", "n", "b", "o", "a", "r", "d" >>,
    << "T", "e", "a", "m", "m", "a", "t", "e", "s" >>,
    << "m", "e", "s", "s", "a", "g", "e", "s" >>,
    << "f", "i", "l", "e", "s" >>,
    << "s", "e", "t", "t", "i", "n", "g", "s" >>,
    << "q", "u", "i", "t" >>,
    << "e", "x", "i", "t" >>,
    << "b", "a", "c", "k" >>,
    << "b" >>,
    << "h", "e", "l", "l", "o" >>,
    << "/", "q", "u", "i", "t", " ", "n", "o", "w" >>,
    << "a", "d", "d", " ", "1" >>,
    << "a", "d", "d", " ", " ", "2" >>,
    << "r", "e", "m", "o", "v", "e", " ", "1" >>,
    << "r", "e", "m", "o", "v", "e", " ", "Z", "E", "D" >>,
    << "a", "d", "d", " ", "z", "e", "d" >>,
    << "a", "d", "d", " ", "9" >>,
    << "a", "d", "d", " ", "2", "x" >>,
    << "a", "d", "d", " ", "n", "o", "b", "o", "d", "y" >>,
    << "a", "d", "d" >>,
    << "n", "e", "w", " ", "a", "d", "a", "m" >>,
    << "n", "e", "w" >>,
    << "d", "e", "l", "e", "t", "e", " ", "1" >>,
    << "c", "l", "e", "a", "r", " ", "2" >>,
    << "d", "e", "l", "e", "t", "e", " ", "9" >>,
    << "c", "l", "e", "a", "r", " ", "x" >>,
    << "d", "e", "l", "e", "t", "e" >> }

\* isQuit, isBack, isHome
IsQuit(value) == value \in {SlashQuit, SlashExit}
IsBack(value) == value \in {SlashBack}
IsHome(value) == value \in {SlashHome}

IsRefresh(value) == value = << >> \/ value = SlashRefresh \/ value = SlashR

\* pieces.join(sep)
RECURSIVE Join(_, _)
Join(pieces, sep) ==
  IF Len(pieces) = 0 THEN << >>
  ELSE IF Len(pieces) = 1 THEN pieces[1]
  ELSE pieces[1] \o sep \o Join(Tail(pieces), sep)

\* What a handler did: the action it resolved to, how the data loads it
\* made ended, and the other API calls it made.
Did(action, loads, calls) ==
  [action |-> action, loads |-> loads, calls |-> calls, shown |-> << >>]

\* What a handler puts before the user besides its content: a status on the
\* toolbar (showError, showSuccess) or the formatted error of a failed call
\* rendered in place of the content.
Status(kind, text) == [kind |-> kind, text |-> text]
ErrorRendered == Status("render", "formatApiError(error)")
Showing(did, statuses) == [did EXCEPT !.shown = statuses]
Call(op, arg, outcome) == [op |-> op, arg |-> arg, outcome |-> outcome]

\* How an API call ends: it resolves to a payload, or it rejects.
Resolved(payload) == [ok |-> TRUE, payload |-> payload]
Rejected == [ok |-> FALSE]
Outcomes(payloads) == {Resolved(p) : p \in payloads} \cup {Rejected}

\* handleHome
HandleHome(state, input) ==
  LET choice == ToLowerCase(Trim(input)) IN
  IF input = Cancelled THEN Did(Quit, << >>, << >>)
  ELSE IF choice \in {<< "1" >>, WordPinboard}
    THEN Did(Push(PinboardScreen), << >>, << >>)
  ELSE IF choice \in {<< "2" >>, WordTeammates}
    THEN Did(Push(TeammatesScreen), << >>, << >>)
  ELSE IF choice \in {<< "3" >>, WordMessages}
    THEN Did(Push(MessagesScreen), << >>, << >>)
  ELSE IF choice \in {<< "4" >>, WordFiles}
    THEN Did(Push(FilesScreen), << >>, << >>)
  ELSE IF choice \in {<< "5" >>, WordSettings}
    THEN Did(Push(SettingsScreen), << >>, << >>)
  ELSE IF choice \in {SlashQuit, SlashExit} THEN Did(Quit, << >>, << >>)
  ELSE Showing(Did(Stay, << >>, << >>), << Status("error", "Unknown option.") >>)

\* What the pinboard endpoints may answer.
PostLists == { << >>, << "p1" >>, << "p1", "p2" >>, << "p2", "p1", "p3" >> }

\* A faulty handlePinboard, to compare against: the fetch of the selected
\* post is made outside the try block.
HandlePinboardDetailUncaught(state, fetched, input, detail) ==
  LET answer == ToLowerCase(Trim(input))
      index == ParseInt(answer)
      posts == fetched.payload
  IN
  IF ~fetched.ok THEN Did(Back, << "fail" >>, << >>)
  ELSE IF input = Cancelled THEN Did(Quit, << "ok" >>, << >>)
  ELSE IF IsQuit(answer) THEN Did(Quit, << "ok" >>, << >>)
  ELSE IF IsHome(answer) THEN Did(Home, << "ok" >>, << >>)
  ELSE IF IsBack(answer) THEN Did(Back, << "ok" >>, << >>)
  ELSE IF IsRefresh(answer) THEN Did(StayOn(state), << "ok" >>, << >>)
  ELSE IF index.nan \/ index.value < 1 \/ index.value > Len(posts)
    THEN Did(StayOn(state), << "ok" >>, << >>)
  ELSE IF detail = "fail" THEN Did(Throw, << "ok", "fail" >>, << >>)
  ELSE Did(Push(PinboardDetailScreen(posts[index.value])),
           << "ok", "ok" >>, << >>)

\* handlePinboard: fetched is how the fetch of the posts (a list of slugs)
\* ends; detail is how the fetch of the selected post ends.
HandlePinboard(state, fetched, input, detail) ==
  LET answer == ToLowerCase(Trim(input))
      index == ParseInt(answer)
      posts == fetched.payload
  IN
  IF ~fetched.ok
    THEN Showing(Did(Back, << "fail" >>, << >>),
                 << Status("error", "Failed to load pinboard"), ErrorRendered >>)
  ELSE IF input = Cancelled THEN Did(Quit, << "ok" >>, << >>)
  ELSE IF IsQuit(answer) THEN Did(Quit, << "ok" >>, << >>)
  ELSE IF IsHome(answer) THEN Did(Home, << "ok" >>, << >>)
  ELSE IF IsBack(answer) THEN Did(Back, << "ok" >>, << >>)
  ELSE IF IsRefresh(answer) THEN Did(StayOn(state), << "ok" >>, << >>)
  ELSE IF index.nan \/ index.value < 1 \/ index.value > Len(posts)
    THEN Showing(Did(StayOn(state), << "ok" >>, << >>),
                 << Status("error", "Select a number between 1 and posts.length.") >>)
  ELSE IF detail = "fail"
    THEN Showing(Did(Back, << "ok", "fail" >>, << >>),
                 << Status("error", "Failed to load pinboard"), ErrorRendered >>)
  ELSE Did(Push(PinboardDetailScreen(posts[index.value])),
           << "ok", "ok" >>, << >>)

\* A faulty handlePinboardDetail, to compare against: a line that is no
\* command opens the post again, on top of itself.
HandlePinboardDetailOpensAgain(state, input) ==
  LET answer == ToLowerCase(Trim(input)) IN
  IF input = Cancelled THEN Did(Quit, << >>, << >>)
  ELSE IF IsQuit(answer) THEN Did(Quit, << >>, << >>)
  ELSE IF IsHome(answer) THEN Did(Home, << >>, << >>)
  ELSE IF IsBack(answer) THEN Did(Back, << >>, << >>)
  ELSE Did(Push(state), << >>, << >>)

\* handlePinboardDetail
HandlePinboardDetail(state, input) ==
  LET answer == ToLowerCase(Trim(input)) IN
  IF input = Cancelled THEN Did(Quit, << >>, << >>)
  ELSE IF IsQuit(answer) THEN Did(Quit, << >>, << >>)
  ELSE IF IsHome(answer) THEN Did(Home, << >>, << >>)
  ELSE Did(Back, << >>, << >>)

Agent(key, hired) == [key |-> key, hired |-> hired]
Adam == Agent(<< "a", "d", "a", "m" >>, FALSE)
Zed == Agent(<< "Z", "e", "d" >>, TRUE)
Bo == Agent(<< "b", "o" >>, FALSE)

\* What the agent store may answer.
AgentCatalogs == { << >>, << Adam >>, << Adam, Zed >>, << Zed, Adam, Bo >> }

\* resolveAgentTarget: the position of the entry, 0 for null.
ResolveAgentTarget(target, entries) ==
  LET maybeIndex == ParseInt(target)
      normalized == ToLowerCase(Trim(target))
      matches == {i \in 1..Len(entries) : ToLowerCase(entries[i].key) = normalized}
  IN
  IF target = << >> THEN 0
  ELSE IF ~maybeIndex.nan /\ maybeIndex.value >= 1
            /\ maybeIndex.value <= Len(entries)
    THEN maybeIndex.value
  ELSE IF matches = {} THEN 0
  ELSE CHOOSE i \in matches : \A j \in matches : i <= j

\* A faulty variant, to compare against: a manage-agent call that does not
\* succeed is passed over in silence.
ManageStatusesOfSuccessOnly(command, managed) ==
  IF managed = "ok"
    THEN << Status("success", IF command = WordAdd THEN "enabled."
                              ELSE "disabled.") >>
    ELSE << >>

\* The status handleTeammates shows after the manage-agent call (lines
\* 542-552): success=false is thrown and caught like a failed call.
ManageStatuses(command, managed) ==
  IF managed = "ok"
    THEN << Status("success", IF command = WordAdd THEN "enabled."
                              ELSE "disabled.") >>
    ELSE << Status("error", "Operation failed.") >>

\* handleTeammates: fetched is how the fetch of the catalog ends; managed is
\* how the manage-agent call ends: "ok", "refused" (success false) or "fail".
HandleTeammates(state, fetched, input, managed) ==
  LET answer == Trim(input)
      lowered == ToLowerCase(answer)
      pieces == SplitSpaces(lowered)
      command == pieces[1]
      targetRaw == Trim(Join(Tail(pieces), << " " >>))
      agents == fetched.payload
      entry == ResolveAgentTarget(targetRaw, agents)
  IN
  IF ~fetched.ok
    THEN Showing(Did(Back, << "fail" >>, << >>),
                 << Status("error", "Failed to load teammates"), ErrorRendered >>)
  ELSE IF input = Cancelled THEN Did(Quit, << "ok" >>, << >>)
  ELSE IF IsQuit(lowered) THEN Did(Quit, << "ok" >>, << >>)
  ELSE IF IsHome(lowered) THEN Did(Home, << "ok" >>, << >>)
  ELSE IF IsRefresh(lowered) THEN Did(StayOn(TeammatesScreen), << "ok" >>, << >>)
  ELSE IF IsBack(lowered) THEN Did(Back, << "ok" >>, << >>)
  ELSE IF command \notin {WordAdd, WordRemove}
    THEN Showing(Did(StayOn(TeammatesScreen), << "ok" >>, << >>),
                 << Status("error", "Unknown command.") >>)
  ELSE IF entry = 0
    THEN Showing(Did(StayOn(TeammatesScreen), << "ok" >>, << >>),
                 << Status("error", "No matching agent found.") >>)
  ELSE Showing(Did(StayOn(TeammatesScreen), << "ok" >>,
                   << Call("manageAgent",
                           [key |-> agents[entry].key,
                            action |-> IF command = WordAdd THEN "add" ELSE "remove"],
                           managed) >>),
               ManageStatuses(command, managed))

Thread(id, title, agentKeys) ==
  [id |-> id, title |-> title, agent_keys |-> agentKeys]
Thread1 == Thread("t1", << "T", "1" >>, << Adam.key >>)
Thread2 == Thread("t2", << >>, << Adam.key, Zed.key >>)
Thread3 == Thread("t3", << "T", "3" >>, << >>)

\* What the thread list endpoint may answer.
ThreadLists == { << >>, << Thread1 >>, << Thread2, Thread1 >>,
                 << Thread1, Thread2, Thread3 >> }

\* What the create-thread endpoint may answer.
CreatedThreads == { Thread("t9", << >>, << >>), Thread("t9", << "T", "9" >>, << >>) }

MessageThreadScreen(threadId, title) ==
  [type |-> "message-thread", threadId |-> threadId, title |-> title,
   messages |-> << >>, totalMessages |-> -1, needsRefresh |-> FALSE]

\* thread.title || thread.agent_keys.join(', ')
\* A faulty variant, to compare against: the title is taken as it is given.
ThreadTitleAsGiven(thread) == thread.title

\* thread.title || thread.agent_keys.join(', ')
ThreadTitle(thread) ==
  IF thread.title # << >> THEN thread.title
  ELSE Join(thread.agent_keys, << ",", " " >>)

\* createNewThread: created is how the create call ends.
CreateNewThread(agentKey, created) ==
  IF ~created.ok
    THEN Showing(Did(StayOn(MessagesScreen), << "ok" >>,
                     << Call("createChatThread", agentKey, "fail") >>),
                 << Status("error", "Failed to create conversation."),
                    ErrorRendered >>)
    ELSE Showing(Did(Push(MessageThreadScreen(created.payload.id,
                            IF created.payload.title # << >>
                              THEN created.payload.title ELSE agentKey)),
                     << "ok" >>, << Call("createChatThread", agentKey, "ok") >>),
                 << Status("success", "Conversation created.") >>)

\* handleThreadMaintenance: done is how the delete or clear call ends.
HandleThreadMaintenance(command, target, threads, done) ==
  LET index == NumberOf(target) IN
  IF target = << >>
    THEN Showing(Did(StayOn(MessagesScreen), << "ok" >>, << >>),
                 << Status("error", "Specify the thread number.") >>)
  ELSE IF index.nan \/ ~index.int \/ index.value < 1 \/ index.value > Len(threads)
    THEN Showing(Did(StayOn(MessagesScreen), << "ok" >>, << >>),
                 << Status("error", "Invalid thread number.") >>)
  ELSE Showing(Did(StayOn(MessagesScreen), << "ok" >>,
                   << Call(IF command = WordDelete THEN "deleteChatThread"
                           ELSE "clearChatHistory",
                           threads[index.value].id, done) >>),
               IF done = "ok"
                 THEN << Status("success", IF command = WordDelete
                                             THEN "Conversation deleted."
                                             ELSE "Conversation history cleared.") >>
                 ELSE << Status("error", "Operation failed."), ErrorRendered >>)

\* handleMessages: fetched is how the fetch of the thread list ends; created
\* and done are how a create and a delete or clear call end.
HandleMessages(state, fetched, input, created, done) ==
  LET answer == Trim(input)
      lowered == ToLowerCase(answer)
      pieces == SplitSpaces(lowered)
      command == pieces[1]
      restJoined == Trim(Join(Tail(pieces), << " " >>))
      index == NumberOf(answer)
      threads == fetched.payload
  IN
  IF ~fetched.ok
    THEN Showing(Did(Back, << "fail" >>, << >>),
                 << Status("error", "Failed to load conversations"), ErrorRendered >>)
  ELSE IF input = Cancelled THEN Did(Quit, << "ok" >>, << >>)
  ELSE IF IsQuit(lowered) THEN Did(Quit, << "ok" >>, << >>)
  ELSE IF IsHome(lowered) THEN Did(Home, << "ok" >>, << >>)
  ELSE IF IsRefresh(lowered) THEN Did(StayOn(MessagesScreen), << "ok" >>, << >>)
  ELSE IF IsBack(lowered) THEN Did(Back, << "ok" >>, << >>)
  ELSE IF ~index.nan /\ index.int
    THEN IF index.value < 1 \/ index.value > Len(threads)
           THEN Showing(Did(StayOn(MessagesScreen), << "ok" >>, << >>),
                        << Status("error", "Invalid thread selection.") >>)
           ELSE Did(Push(MessageThreadScreen(threads[index.value].id,
                           ThreadTitle(threads[index.value]))),
                    << "ok" >>, << >>)
  ELSE IF command = WordNew
    THEN IF restJoined = << >>
           THEN Showing(Did(StayOn(MessagesScreen), << "ok" >>, << >>),
                        << Status("error", "Specify an agent key, e.g. \"new adam\".") >>)
           ELSE CreateNewThread(restJoined, created)
  ELSE IF command \in {WordDelete, WordClear}
    THEN HandleThreadMaintenance(command, restJoined, threads, done)
  ELSE Showing(Did(StayOn(MessagesScreen), << "ok" >>, << >>),
               << Status("error", "Unknown command.") >>)

\* A faulty handleFiles, to compare against: it pushes its own screen where
\* it should stay.
HandleFilesPushesItself(state, fetched, input) ==
  LET answer == ToLowerCase(Trim(input)) IN
  IF fetched = "fail" THEN Did(Back, << "fail" >>, << >>)
  ELSE IF input = Cancelled THEN Did(Quit, << "ok" >>, << >>)
  ELSE IF IsQuit(answer) THEN Did(Quit, << "ok" >>, << >>)
  ELSE IF IsHome(answer) THEN Did(Home, << "ok" >>, << >>)
  ELSE IF IsBack(answer) THEN Did(Back, << "ok" >>, << >>)
  ELSE Did(Push(state), << "ok" >>, << >>)

\* handleFiles: fetched is how the listing fetch ends.
HandleFiles(state, fetched, input) ==
  LET answer == ToLowerCase(Trim(input)) IN
  IF fetched = "fail"
    THEN Showing(Did(Back, << "fail" >>, << >>),
                 << Status("error", "Failed to load files."), ErrorRendered >>)
  ELSE IF input = Cancelled THEN Did(Quit, << "ok" >>, << >>)
  ELSE IF IsQuit(answer) THEN Did(Quit, << "ok" >>, << >>)
  ELSE IF IsHome(answer) THEN Did(Home, << "ok" >>, << >>)
  ELSE IF IsBack(answer) THEN Did(Back, << "ok" >>, << >>)
  ELSE Did(StayOn(state), << "ok" >>, << >>)

\* A faulty handleSettings, to compare against: a failed fetch stays on the
\* screen.
HandleSettingsStaysOnFailure(state, profile, preferences, input) ==
  LET answer == ToLowerCase(Trim(input))
      loads == << profile, preferences >>
  IN
  IF profile = "fail" \/ preferences = "fail"
    THEN Did(StayOn(state), loads, << >>)
  ELSE IF input = Cancelled THEN Did(Quit, loads, << >>)
  ELSE IF IsQuit(answer) THEN Did(Quit, loads, << >>)
  ELSE IF IsHome(answer) THEN Did(Home, loads, << >>)
  ELSE Did(Back, loads, << >>)

\* handleSettings: profile and preferences are how the two concurrent fetches
\* end; Promise.all rejects when either does.
HandleSettings(state, profile, preferences, input) ==
  LET answer == ToLowerCase(Trim(input))
      loads == << profile, preferences >>
  IN
  IF profile = "fail" \/ preferences = "fail"
    THEN Showing(Did(Back, loads, << >>),
                 << Status("error", "Failed to load settings."), ErrorRendered >>)
  ELSE IF input = Cancelled THEN Did(Quit, loads, << >>)
  ELSE IF IsQuit(answer) THEN Did(Quit, loads, << >>)
  ELSE IF IsHome(answer) THEN Did(Home, loads, << >>)
  ELSE Did(Back, loads, << >>)

\* A ChatMessage, as far as the CLI reads it.  Null is a created_at that is
\* null or missing.
Null == << "<null>" >>
ChatMessage(id, created_at, content) ==
  [id |-> id, created_at |-> created_at, content |-> content]

\* String(n) for a natural number.
RECURSIVE FormatNumber(_)
FormatNumber(n) ==
  IF n < 10 THEN << Digits[n + 1] >>
  ELSE FormatNumber(n \div 10) \o << Digits[(n % 10) + 1] >>

\* content.slice(0, 30)
KeySlice == 30
Slice(text, end) == SubSeq(text, 1, IF Len(text) < end THEN Len(text) ELSE end)

\* A key that forgets the id: the fallback key of every message.
GetMessageKeyWithoutId(message, fallbackIndex) ==
  LET created == IF message.created_at # Null THEN message.created_at
                 ELSE << "u", "n", "k", "n", "o", "w", "n" >>
      contentHash == IF message.content # << >>
                       THEN Slice(message.content, KeySlice)
                       ELSE << "c", "o", "n", "t", "e", "n", "t" >>
  IN created \o << ":" >> \o << ":" >> \o contentHash

\* getMessageKey
GetMessageKey(message, fallbackIndex) ==
  IF message.id # << >> THEN message.id
  ELSE
    LET created == IF message.created_at # Null THEN message.created_at
                   ELSE << "u", "n", "k", "n", "o", "w", "n" >>
        contentHash == IF message.content # << >>
                         THEN Slice(message.content, KeySlice)
                         ELSE << "c", "o", "n", "t", "e", "n", "t" >>
    IN created \o << ":" >> \o FormatNumber(fallbackIndex) \o << ":" >> \o contentHash

\* A faulty printing, to compare against: every message from startIndex on
\* is printed, seen or not.
RECURSIVE PrintEveryMessageStartingAt(_, _, _)
PrintEveryMessageStartingAt(messages, seen, startIndex) ==
  IF startIndex >= Len(messages) THEN [printed |-> << >>, seen |-> seen]
  ELSE
    LET key == GetMessageKey(messages[startIndex + 1], startIndex)
        rest == PrintEveryMessageStartingAt(messages, seen \cup {key},
                                            startIndex + 1)
    IN [rest EXCEPT !.printed = << startIndex >> \o rest.printed]

\* printMessagesStartingAt(startIndex) with the messages and the seen keys it
\* finds: the positions it prints and the keys seen afterwards.  A message is
\* printed unless its key has been seen; fallbackIndex counts from 0.
RECURSIVE PrintMessagesStartingAt(_, _, _)
PrintMessagesStartingAt(messages, seen, startIndex) ==
  IF startIndex >= Len(messages) THEN [printed |-> << >>, seen |-> seen]
  ELSE
    LET key == GetMessageKey(messages[startIndex + 1], startIndex)
        rest == PrintMessagesStartingAt(messages, seen \cup {key}, startIndex + 1)
    IN IF key \in seen THEN rest
       ELSE [rest EXCEPT !.printed = << startIndex >> \o rest.printed]

\* The messages of the modelled conversations.
M1 == ChatMessage(<< "m", "1" >>, << "d", "1" >>, << "h", "i" >>)
M2 == ChatMessage(<< "m", "2" >>, << "d", "2" >>, << "y", "o" >>)
M3 == ChatMessage(<< "m", "3" >>, Null, << "o", "k" >>)
M4 == ChatMessage(<< "m", "4" >>, << "d", "4" >>, << "y", "o" >>)

\* What the thread endpoint may answer: a title and the messages.
MessageLists == { << >>, << M1 >>, << M1, M2 >>, << M1, M2, M3 >> }
ThreadPayloads ==
  { [title |-> t, messages |-> m] : t \in {<< >>, << "T", "x" >>}, m \in MessageLists }

\* What the send endpoint may answer: the stored message.
SentMessages == { M4 }

\* pollForAgentReplies is called with 8 attempts.
PollAttempts == 8

\* How a fetch of the thread ended, as the poll saw it: the length of the
\* fetched message list, or Failed when fetchChatThread threw.
Failed == -1
Fetched(answer) == IF answer.ok THEN Len(answer.payload.messages) ELSE Failed

\* A poll loop that goes on for as long as the server answers, whatever
\* remaining says.
RECURSIVE PollLoopUnbounded(_, _, _)
PollLoopUnbounded(currentCount, remaining, answers) ==
  IF answers = << >>
    THEN [messages |-> << >>, fetches |-> << >>]
  ELSE LET answer == Head(answers) IN
    IF ~answer.ok
      THEN [messages |-> << >>, fetches |-> << Failed >>]
    ELSE IF Len(answer.payload.messages) > currentCount
      THEN [messages |-> SubSeq(answer.payload.messages, currentCount + 1,
                                Len(answer.payload.messages)),
            fetches |-> << Fetched(answer) >>]
    ELSE LET rest == PollLoopUnbounded(currentCount, remaining - 1, Tail(answers)) IN
         [rest EXCEPT !.fetches = << Fetched(answer) >> \o rest.fetches]

\* A poll loop that takes a failed fetch for a thread that has not grown and
\* goes on.
RECURSIVE PollLoopSkipsFailures(_, _, _)
PollLoopSkipsFailures(currentCount, remaining, answers) ==
  IF remaining <= 0
    THEN [messages |-> << >>, fetches |-> << >>]
  ELSE LET answer == Head(answers) IN
    IF answer.ok /\ Len(answer.payload.messages) > currentCount
      THEN [messages |-> SubSeq(answer.payload.messages, currentCount + 1,
                                Len(answer.payload.messages)),
            fetches |-> << Fetched(answer) >>]
    ELSE LET rest == PollLoopSkipsFailures(currentCount, remaining - 1,
                                           Tail(answers)) IN
         [rest EXCEPT !.fetches = << Fetched(answer) >> \o rest.fetches]

\* The while loop of pollForAgentReplies: answers[i] is how the i-th fetch of
\* the thread would end.  It gives the new messages and, for each fetch the
\* loop made, how it ended.  A failed fetch is written to the debug log and
\* ends the loop.
RECURSIVE PollLoop(_, _, _)
PollLoop(currentCount, remaining, answers) ==
  IF remaining <= 0
    THEN [messages |-> << >>, fetches |-> << >>]
  ELSE LET answer == Head(answers) IN
    IF ~answer.ok
      THEN [messages |-> << >>, fetches |-> << Failed >>]
    ELSE IF Len(answer.payload.messages) > currentCount
      THEN [messages |-> SubSeq(answer.payload.messages, currentCount + 1,
                                Len(answer.payload.messages)),
            fetches |-> << Fetched(answer) >>]
    ELSE LET rest == PollLoop(currentCount, remaining - 1, Tail(answers)) IN
         [rest EXCEPT !.fetches = << Fetched(answer) >> \o rest.fetches]

\* pollForAgentReplies
PollForAgentReplies(currentCount, attempts, answers) ==
  PollLoop(currentCount, IF attempts > 0 THEN attempts ELSE 0, answers).messages

\* What a round of the thread's prompt loop did after a sent message: the
\* poll, as the calls record has it, with the baseline it was given, how each
\* of its fetches ended and the number of messages it returned.
Polled(baseline, poll) ==
  [op |-> "pollForAgentReplies", baseline |-> baseline,
   fetches |-> poll.fetches, new |-> Len(poll.messages)]

\* The server's answers to a poll, more of them than the poll has attempts:
\* some fetches that show nothing new, then a failure, one more fetch without
\* news or the whole conversation, then possibly the whole conversation, then
\* nothing new for as long as the poll goes on.
Quiet(k) == [i \in 1..k |-> Resolved([title |-> << >>, messages |-> << >>])]
Whole == Resolved([title |-> << >>, messages |-> << M1, M2, M3 >>])
PollScripts ==
  { Quiet(k) \o last \o after \o Quiet(PollAttempts) :
      k \in {0, PollAttempts - 1, PollAttempts},
      last \in { << Rejected >>, Quiet(1), << Whole >> },
      after \in { << >>, << Whole >> } }

\* What the catch of loadThread shows: 'Failed to load conversation.' on the
\* toolbar and the formatted error on the screen.
LoadFailure == << "error", "api-error" >>

\* A send that puts a failed poll on the status line.
SendStatusesPollError(poll) ==
  IF \E i \in 1..Len(poll.fetches) : poll.fetches[i] = Failed
    THEN << "success", "error" >>
    ELSE << "success" >>

\* The statuses a successful send puts on the toolbar: 'Message sent.'; the
\* poll for replies adds none, whatever becomes of it.
SendStatuses(poll) == << "success" >>

\* The assignments to state before handleMessageThread returns.
WriteBack(state, messages, title) ==
  [state EXCEPT !.messages = messages, !.totalMessages = Len(messages),
                !.title = title, !.needsRefresh = FALSE]

\* What is typed at the thread's prompt: the commands, and some messages.
ThreadLines ==
  { l \in Lines : \/ Trim(l) = << >>
                  \/ l[1] = "/"
                  \/ ToLowerCase(Trim(l)) \in {SlashQuit, SlashBack, SlashHome}
                  \/ l \in {<< "h", "e", "l", "l", "o" >>, << "b" >>, << "1" >>,
                            << "q", "u", "i", "t" >>, << "b", "a", "c", "k" >>,
                            << "e", "x", "i", "t" >>} }

Pending == [type |-> "pending"]
Handled(handler, did) == [handler |-> handler, loads |-> did.loads, calls |-> did.calls]

-----------------------------------------------------------------------------
(* The navigator loop with the handlers, interactive.ts 65-104 *)

\* One iteration of the loop on a screen whose handler prompts once.
Iterate(did) ==
  /\ Navigate(current, did.action)
  /\ lastCall' = Handled(current.type, did)
  /\ UNCHANGED << envVars, promptVars, authVars, session, threadVars, loginVars, histVars >>

HomeStep ==
  /\ pc = "nav" /\ current.type = "home"
  /\ \E input \in Lines \cup {Cancelled} : Iterate(HandleHome(current, input))

PinboardStep ==
  /\ pc = "nav" /\ current.type = "pinboard"
  /\ \E fetched \in Outcomes(PostLists), input \in Lines \cup {Cancelled},
        detail \in {"ok", "fail"} :
       Iterate(HandlePinboard(current, fetched, input, detail))

PinboardDetailStep ==
  /\ pc = "nav" /\ current.type = "pinboard-detail"
  /\ \E input \in Lines \cup {Cancelled} :
       Iterate(HandlePinboardDetail(current, input))

\* The first word of a line, as the handlers take it: trimmed, lowered, split.
Command(input) == SplitSpaces(ToLowerCase(Trim(input)))[1]

\* The outcomes to draw for a call made only on the given commands.
OutcomesOn(input, commands, outcomes) ==
  IF Command(input) \in commands THEN outcomes
  ELSE {CHOOSE o \in outcomes : TRUE}

TeammatesStep ==
  /\ pc = "nav" /\ current.type = "teammates"
  /\ \E fetched \in Outcomes(AgentCatalogs), input \in Lines \cup {Cancelled} :
       \E managed \in OutcomesOn(input, {WordAdd, WordRemove},
                                  {"ok", "refused", "fail"}) :
         Iterate(HandleTeammates(current, fetched, input, managed))

MessagesStep ==
  /\ pc = "nav" /\ current.type = "messages"
  /\ \E fetched \in Outcomes(ThreadLists), input \in Lines \cup {Cancelled} :
       \E created \in OutcomesOn(input, {WordNew}, Outcomes(CreatedThreads)),
          done \in OutcomesOn(input, {WordDelete, WordClear}, {"ok", "fail"}) :
         Iterate(HandleMessages(current, fetched, input, created, done))

FilesStep ==
  /\ pc = "nav" /\ current.type = "files"
  /\ \E fetched \in {"ok", "fail"}, input \in Lines \cup {Cancelled} :
       Iterate(HandleFiles(current, fetched, input))

SettingsStep ==
  /\ pc = "nav" /\ current.type = "settings"
  /\ \E profile \in {"ok", "fail"}, preferences \in {"ok", "fail"},
        input \in Lines \cup {Cancelled} :
       Iterate(HandleSettings(current, profile, preferences, input))

\* What handleMessageThread did: phase is "enter" up to the first prompt,
\* "loop" for a round of the prompt loop and "leave" for a return; state is
\* the ScreenState object as the handler has left it so far; reentry tells,
\* for "enter", whether the invocation is on the thread that cachedId names;
\* shown are the statuses (showSuccess, showError) put on the toolbar and
\* the errors rendered on the screen.
ThreadHandled(phase, did, state, reentry, shown) ==
  [handler |-> "message-thread", loads |-> did.loads, calls |-> did.calls,
   phase |-> phase, state |-> state, reentry |-> reentry, shown |-> shown]

\* A faulty test, to compare against: the thread is always loaded.
NeedsLoadAlways(state) == TRUE

\* if (!messages.length || state.needsRefresh)
NeedsLoad(state) == state.messages = << >> \/ state.needsRefresh

\* const maxHistory = 10
MaxHistory == 10

\* The first render of the conversation (lines 802-815): the keys of the
\* messages before the last maxHistory are seeded, the others are printed.
RECURSIVE SeedSeenKeys(_, _)
SeedSeenKeys(messages, count) ==
  IF count = 0 THEN {}
  ELSE SeedSeenKeys(messages, count - 1)
         \cup {GetMessageKey(messages[count], count - 1)}
\* A faulty first render, to compare against: the whole conversation.
FirstRenderWhole(messages) == PrintMessagesStartingAt(messages, {}, 0)

FirstRender(messages) ==
  LET initialStart == IF Len(messages) > MaxHistory
                        THEN Len(messages) - MaxHistory ELSE 0
  IN PrintMessagesStartingAt(messages, SeedSeenKeys(messages, initialStart),
                             initialStart)

\* What printMessage returns for a message it prints: a block of the
\* conversation.
MessageBlock(message) == [kind |-> "message", message |-> message]

\* The blocks printMessagesStartingAt returns for the positions it printed.
Blocks(messages, printed) ==
  [i \in 1..Len(printed) |-> MessageBlock(messages[printed[i] + 1])]

\* The content of the first render (lines 805-815): the title, a notice when
\* there are no messages or when older ones are left out, and the blocks of
\* the messages printed.
FirstContent(title, messages) ==
  LET initialStart == IF Len(messages) > MaxHistory
                        THEN Len(messages) - MaxHistory ELSE 0
      notice == IF messages = << >> THEN << [kind |-> "empty"] >>
                ELSE IF initialStart > 0
                  THEN << [kind |-> "showing-last",
                           shown |-> Len(messages) - initialStart,
                           of |-> Len(messages)] >>
                ELSE << >>
  IN << [kind |-> "title", title |-> title] >> \o notice
       \o Blocks(messages, FirstRender(messages).printed)

\* conversationBuffer, where it is followed.
Buffer(content) == IF Followed THEN content ELSE << >>

\* handleMessageThread up to its first prompt (lines 732-828), where the
\* thread endpoint may answer with any of fetches.
ThreadEnterOn(fetches) ==
  /\ pc = "nav" /\ current.type = "message-thread"
  /\ UNCHANGED << envVars, promptVars, authVars, session, loginVars, histVars >>
  /\ cachedId' = "none"
  /\ IF NeedsLoad(current)
       THEN \E fetched \in fetches :
              IF ~fetched.ok
                THEN /\ Navigate(current, Back)
                     /\ lastCall' = ThreadHandled("leave",
                                      Did(Back, << "fail" >>, << >>), current,
                                      current.threadId = cachedId,
                                      LoadFailure)
                     /\ UNCHANGED << tMessages, tTitle, seenKeys,
                                     conversationBuffer >>
                ELSE /\ tMessages' = fetched.payload.messages
                     /\ seenKeys' = FirstRender(fetched.payload.messages).seen
                     /\ tTitle' = IF fetched.payload.title # << >>
                                    THEN fetched.payload.title ELSE current.title
                     /\ conversationBuffer' =
                          Buffer(FirstContent(tTitle', fetched.payload.messages))
                     /\ pc' = "thread"
                     /\ lastAction' = Pending
                     /\ lastCall' = ThreadHandled("enter",
                                      Did(Pending, << "ok" >>, << >>), current,
                                      current.threadId = cachedId, << >>)
                     /\ UNCHANGED << stack, current, quit, isActive >>
       ELSE /\ tMessages' = current.messages
            /\ seenKeys' = FirstRender(current.messages).seen
            /\ tTitle' = current.title
            /\ conversationBuffer' =
                 Buffer(FirstContent(current.title, current.messages))
            /\ pc' = "thread"
            /\ lastAction' = Pending
            /\ lastCall' = ThreadHandled("enter", Did(Pending, << >>, << >>),
                                         current, current.threadId = cachedId,
                                         << >>)
            /\ UNCHANGED << stack, current, quit, isActive >>

ThreadEnter == ThreadEnterOn(Outcomes(ThreadPayloads))

\* Leaving the thread: state is written, the action is returned and the
\* handler's locals are gone.
ThreadLeave(action) ==
  LET left == WriteBack(current, tMessages, tTitle) IN
  /\ Navigate(left, action)
  /\ lastCall' = ThreadHandled("leave", Did(action, << >>, << >>), left, FALSE,
                              << >>)
  /\ tMessages' = << >>
  /\ tTitle' = << >>
  /\ seenKeys' = {}
  /\ conversationBuffer' = << >>
  /\ cachedId' = IF action.type \in {"back", "home"} /\ left.messages # << >>
                   THEN left.threadId ELSE "none"

\* Staying in the thread's prompt loop.
ThreadStay(messages, title, seen, extra, calls, shown) ==
  /\ tMessages' = messages
  /\ seenKeys' = seen
  /\ tTitle' = title
  /\ conversationBuffer' = Buffer(conversationBuffer \o extra)
  /\ lastCall' = ThreadHandled("loop", Did(Pending, << >>, calls), current,
                              FALSE, shown)
  /\ UNCHANGED << pc, stack, current, quit, isActive, lastAction, cachedId >>

\* What the prompt loop takes a line for (lines 829-876).
ThreadCommand(input) ==
  LET trimmed == Trim(input)
      lowered == ToLowerCase(trimmed)
  IN
  IF input = Cancelled THEN "cancel"
  ELSE IF trimmed = << >> THEN "blank"
  ELSE IF IsQuit(lowered) THEN "quit"
  ELSE IF IsHome(lowered) THEN "home"
  ELSE IF IsBack(lowered) THEN "back"
  ELSE IF lowered = SlashRefresh \/ lowered = SlashR THEN "refresh"
  ELSE "send"

\* A faulty handling of a failed send, to compare against: the rejection is
\* swallowed and nothing is shown.
SendFailedSilently ==
  ThreadStay(tMessages, tTitle, seenKeys, << >>,
             << Call("sendChatMessage", current.threadId, "fail") >>, << >>)

\* The catch of the send (lines 904-910): sendChatMessage rejected, the error
\* status is shown, the conversation is rendered as it was and the loop
\* prompts again.
SendFailed ==
  ThreadStay(tMessages, tTitle, seenKeys, << >>,
             << Call("sendChatMessage", current.threadId, "fail") >>,
             << "error" >>)

\* One round of handleMessageThread's prompt loop (lines 828-921), where the
\* thread endpoint may answer a refresh with any of fetches, the send endpoint
\* with any of sents, and the fetches of a poll with any of scripts.
ThreadRoundOn(command, fetches, sents, scripts) ==
  CASE command \in {"cancel", "quit"} -> ThreadLeave(Quit)
    [] command = "blank" ->
         ThreadStay(tMessages, tTitle, seenKeys, << >>, << >>, << >>)
    [] command = "home" -> ThreadLeave(Home)
    [] command = "back" -> ThreadLeave(Back)
    [] command = "refresh" ->
         \E fetched \in fetches :
           IF fetched.ok
             THEN LET newContent ==
                        PrintMessagesStartingAt(fetched.payload.messages,
                                                seenKeys, Len(tMessages))
                  IN ThreadStay(fetched.payload.messages,
                                IF fetched.payload.title # << >>
                                  THEN fetched.payload.title ELSE tTitle,
                                newContent.seen,
                                Blocks(fetched.payload.messages,
                                       newContent.printed),
                                << Call("fetchChatThread", current.threadId, "ok") >>,
                                IF newContent.printed = << >>
                                  THEN << "success" >> ELSE << >>)
             ELSE ThreadStay(tMessages, tTitle, seenKeys, << >>,
                             << Call("fetchChatThread", current.threadId, "fail") >>,
                             LoadFailure \o << "error" >>)
    [] command = "send" ->
         \E sent \in sents, script \in scripts :
           IF ~sent.ok THEN SendFailed
             ELSE LET withSent == Append(tMessages, sent.payload)
                      sentContent ==
                        PrintMessagesStartingAt(withSent, seenKeys,
                                                Len(tMessages))
                      poll == PollLoop(Len(withSent), PollAttempts, script)
                      newMessages == PollForAgentReplies(Len(withSent),
                                                         PollAttempts, script)
                      withReplies == withSent \o newMessages
                      repliesContent ==
                        PrintMessagesStartingAt(withReplies, sentContent.seen,
                                                Len(withSent))
                  IN ThreadStay(withReplies, tTitle, repliesContent.seen,
                                Blocks(withSent, sentContent.printed)
                                  \o Blocks(withReplies, repliesContent.printed),
                                << Call("sendChatMessage", current.threadId, "ok"),
                                   Polled(Len(withSent), poll) >>,
                                SendStatuses(poll))

\* A round against a server that may answer anything; no more is sent once
\* the thread holds MaxMessages messages.
ThreadRound(command) ==
  /\ command = "send" => Len(tMessages) < MaxMessages
  /\ ThreadRoundOn(command, Outcomes(ThreadPayloads), Outcomes(SentMessages),
                   PollScripts)

ThreadPrompt ==
  /\ pc = "thread"
  /\ UNCHANGED << envVars, promptVars, authVars, session, loginVars, histVars >>
  /\ \E command \in {ThreadCommand(input) : input \in ThreadLines \cup {Cancelled}} :
       ThreadRound(command)

ScreenNext ==
  \/ HomeStep
  \/ PinboardStep
  \/ PinboardDetailStep
  \/ TeammatesStep
  \/ MessagesStep
  \/ FilesStep
  \/ SettingsStep
  \/ ThreadEnter
  \/ ThreadPrompt

-----------------------------------------------------------------------------
(* The navigator on its own: handleScreen may return any ScreenAction *)

NavScreens == {PinboardScreen, MessagesScreen, PinboardDetailScreen(1)}

AnyAction ==
  {Push(s) : s \in NavScreens} \cup {Replace(s) : s \in NavScreens}
    \cup {StayOn(s) : s \in NavScreens} \cup {Stay, Back, Home, Quit}

NextShape(action) ==
  CASE action.type = "push" ->
         IF shape = "pushes" THEN "pushes"
         ELSE IF shape = "backs" THEN "mixed" ELSE shape
    [] action.type = "back" ->
         IF shape = "pushes" THEN "backs" ELSE shape
    [] OTHER -> "other"

NavInit ==
  /\ pc = "nav"
  /\ NoPrompt
  /\ isTTY \in BOOLEAN
  /\ isActive = isTTY
  /\ configured = TRUE
  /\ persist = TRUE
  /\ clientInit = TRUE
  /\ session \in Sessions
  /\ currentSession = session
  /\ sessionFile = IF persist THEN session ELSE NoSession
  /\ stack = << >>
  /\ current = HomeScreen(session)
  /\ quit = FALSE
  /\ lastAction = NoAction
  /\ lastCall = NoCall
  /\ tMessages = << >>
  /\ tTitle = << >>
  /\ seenKeys = {}
  /\ conversationBuffer = << >>
  /\ cachedId = "none"
  /\ loginEmail = << >>
  /\ events = << >>
  /\ pushed = << >>
  /\ nBack = 0
  /\ shape = "pushes"
  /\ steps = 0

NavStep ==
  /\ pc = "nav"
  /\ steps < MaxNavSteps
  /\ \E action \in AnyAction :
       /\ Navigate(current, action)
       /\ pushed' = IF action.type = "push"
                      THEN Append(pushed, action.screen) ELSE pushed
       /\ nBack' = IF action.type = "back" THEN nBack + 1 ELSE nBack
       /\ shape' = NextShape(action)
  /\ steps' = steps + 1
  /\ lastCall' = NoCall
  /\ UNCHANGED << envVars, promptVars, authVars, session, loginVars, threadVars >>

NavNext == NavStep

NavSpec == NavInit /\ [][NavNext]_vars


\* The program from the moment the navigator starts.
ScreenSpec == NavInit /\ [][ScreenNext]_vars

-----------------------------------------------------------------------------
(* Properties of the navigator loop *)

ScreenTypes == {"home", "pinboard", "pinboard-detail", "teammates", "messages",
                "message-thread", "files", "settings"}

\* C1, as the specification words it: for every sequence of Push and Back
\* actions from the initial Home with an empty stack, after N pushes and M
\* backs (M <= N) the stack depth is N - M and the current screen is the
\* (N-M)-th pushed screen, or the initial Home if M = N.
C1_AnyPushBackSequence ==
  (shape # "other" /\ nBack <= Len(pushed)) =>
     /\ Len(stack) = Len(pushed) - nBack
     /\ current = IF nBack = Len(pushed) THEN HomeScreen(session)
                  ELSE pushed[Len(pushed) - nBack]

\* C1: for N Push actions followed by M Back actions (M <= N) from the
\* initial Home with an empty stack, the stack depth is N - M and the current
\* screen is the (N-M)-th pushed screen, or the initial Home if M = N.
C1_PushesThenBacks ==
  (shape \in {"pushes", "backs"} /\ nBack <= Len(pushed)) =>
     /\ Len(stack) = Len(pushed) - nBack
     /\ current = IF nBack = Len(pushed) THEN HomeScreen(session)
                  ELSE pushed[Len(pushed) - nBack]

C1_Witness ==
  /\ shape = "backs" /\ Len(pushed) = 3 /\ nBack = 1
  /\ pushed[2] # pushed[3]
  /\ current = pushed[2]

\* C2: a Home action applied in any navigator state, whatever the stack depth
\* and current screen before it, leaves an empty stack and a Home screen that
\* carries the bootstrap session.
C2_HomeClearsStack ==
  lastAction.type = "home" => stack = << >> /\ current = HomeScreen(session)

C2_Witness ==
  /\ lastAction = Home /\ Len(pushed) = 2 /\ nBack = 0 /\ steps = 3
  /\ stack = << >> /\ current.type = "home"

\* C3: in every navigator state one screen is current, no stack entry is the
\* current screen, and the stack grows only by a Push, which appends the screen
\* navigated away from.
C3_StackExcludesCurrent ==
  /\ [](/\ current.type \in ScreenTypes
        /\ \A i \in 1..Len(stack) : stack[i] # current)
  /\ [][Len(stack') > Len(stack) =>
          /\ lastAction'.type = "push"
          /\ stack' = Append(stack, current)
          /\ current' = lastAction'.screen]_vars

C3_Witness ==
  /\ Len(stack) = 2
  /\ current.type = "message-thread"
  /\ stack[2].type = "messages"
  /\ lastAction.type = "pending"

\* C4: a Back action makes the most recently pushed stack entry the current
\* screen and removes it from the stack; on an empty stack it makes Home the
\* current screen and leaves the stack empty.
C4_BackPopsOrFallsBackToHome ==
  [][(steps' # steps /\ lastAction'.type = "back") =>
       IF Len(stack) > 0
         THEN current' = stack[Len(stack)] /\ stack' = Pop(stack)
         ELSE current' = HomeScreen(session) /\ stack' = << >>]_vars

C4_Witness ==
  /\ steps = 4 /\ Len(pushed) = 3 /\ nBack = 1 /\ lastAction = Back
  /\ Len(stack) = 2 /\ stack[1] # stack[2]

C6_FetchFailureReturnsBack ==
  (\E i \in 1..Len(lastCall.loads) : lastCall.loads[i] = "fail") =>
     lastAction = Back

C6_Witness ==
  /\ lastCall.handler = "pinboard"
  /\ lastCall.loads = << "ok", "fail" >>
  /\ lastAction = Back
  /\ current.type = "home"

-----------------------------------------------------------------------------
(* Properties of the session bootstrap and the inline login flow *)

IsIdp(e, op) == e.kind = "idp" /\ e.op = op
IsPrompt(e) == e.kind = "prompt"
IsInput(e, what) == e.kind = "input" /\ e.what = what

\* C8: the bootstrap returns a session already in memory without calling the
\* identity provider; otherwise it attempts a silent refresh and returns the
\* session the refresh yields; it starts the inline login only when the
\* refresh yields no session or fails.
C8_BootstrapOrder ==
  [][pc = "start" =>
       LET made == SubSeq(events', Len(events) + 1, Len(events'))
           refreshed == {i \in 1..Len(made) :
                           /\ IsIdp(made[i], "getSession")
                           /\ made[i].result \in Sessions}
       IN
       IF currentSession # NoSession
         THEN pc' = "nav" /\ session' = currentSession /\ made = << >>
         ELSE /\ pc' \in {"nav", "awaitEmail"}
              /\ pc' = "nav" =>
                   /\ refreshed = {Len(made)}
                   /\ session' = made[Len(made)].result
              /\ pc' = "awaitEmail" =>
                   /\ refreshed = {}
                   /\ made[Len(made)] = Prompted("email", << >>)]_vars

C8_Witness ==
  /\ pc = "awaitEmail"
  /\ Len(events) = 2
  /\ IsIdp(events[1], "getSession") /\ events[1].result = "error"

\* The first prompt after position i of the login history, 0 if none.
NextPrompt(i) ==
  LET later == {j \in (i + 1)..Len(events) : IsPrompt(events[j])} IN
  IF later = {} THEN 0 ELSE CHOOSE j \in later : \A k \in later : j <= k

\* C9: in the inline login a failed send-code call leads back to the email
\* prompt, never to the passcode prompt, and the send is not made again until
\* an email has been entered again.
C9_SendFailureReturnsToEmail ==
  \A i \in 1..Len(events) :
    (events[i] = Entered("email", "text") /\ NextPrompt(i) # 0) =>
       LET j == NextPrompt(i)
           sends == {k \in (i + 1)..(j - 1) : IsIdp(events[k], "signInWithOtp")}
           sent == \E k \in sends : events[k].result = "ok"
       IN
       /\ Cardinality(sends) <= 1
       /\ events[j].step = IF sent THEN "code" ELSE "email"
       /\ (~sent /\ j = Len(events)) => pc = "awaitEmail" /\ loginEmail = << >>

C9_Witness ==
  /\ pc = "awaitEmail"
  /\ \E i \in 1..(Len(events) - 1) :
       /\ IsIdp(events[i], "signInWithOtp") /\ events[i].result = "error"
       /\ events[i + 1] = Prompted("email", << >>)
       /\ i + 1 = Len(events)

\* C10: in the inline login a blank input does not advance the flow: at the
\* email prompt no send-code call is made and the email is asked again; at
\* the passcode prompt no verify-code call is made and the passcode is asked
\* again for the same email.
C10_BlankInputReprompts ==
  \A i \in 1..Len(events) :
    IsInput(events[i], "blank") =>
       /\ i > 1 /\ i < Len(events)
       /\ IsPrompt(events[i - 1])
       /\ IsPrompt(events[i + 1])
       /\ events[i + 1].email = events[i - 1].email
       /\ events[i + 1].step =
            IF events[i].step = "email" THEN "email" ELSE "codeRetry"
       /\ events[i - 1].step = events[i].step
       /\ i + 1 = Len(events) =>
            /\ pc = IF events[i].step = "email" THEN "awaitEmail"
                    ELSE "awaitCodeRetry"
            /\ events[i].step # "email" => loginEmail = events[i - 1].email

C10_Witness ==
  /\ pc = "awaitCodeRetry"
  /\ \E i \in 1..Len(events) : events[i] = Entered("email", "blank")
  /\ \E i \in 1..(Len(events) - 1) :
       /\ events[i] = Entered("code", "blank")
       /\ events[i + 1] = Prompted("codeRetry", loginEmail)
       /\ loginEmail # << >>


\* The last send-code call before position i of the login history, 0 if none.
LastSend(i) ==
  LET earlier == {j \in 1..(i - 1) : IsIdp(events[j], "signInWithOtp")} IN
  IF earlier = {} THEN 0 ELSE CHOOSE j \in earlier : \A k \in earlier : k <= j

\* C11: in the inline login a failed verify-code call leads back to the
\* passcode prompt: however many verifications fail, no send-code call
\* follows a verify-code call, and every verify-code call uses the email the
\* code was sent to.
C11_VerifyFailureReturnsToCode ==
  \A i \in 1..Len(events) :
    IsIdp(events[i], "verifyOtp") =>
       /\ LastSend(i) # 0
       /\ events[LastSend(i)].result = "ok"
       /\ events[i].email = events[LastSend(i)].email
       /\ \A j \in (i + 1)..Len(events) : ~IsIdp(events[j], "signInWithOtp")
       /\ events[i].result \notin Sessions =>
            /\ i < Len(events)
            /\ IsPrompt(events[i + 1])
            /\ events[i + 1].step = "codeRetry"
            /\ ToLowerCase(events[i + 1].email) = events[i].email
            /\ i + 1 = Len(events) =>
                 pc = "awaitCodeRetry" /\ loginEmail = events[i + 1].email

C11_Witness ==
  /\ pc = "awaitCodeRetry"
  /\ \E i, j \in 1..Len(events) :
       /\ i < j
       /\ IsIdp(events[i], "verifyOtp") /\ events[i].result = "error"
       /\ IsIdp(events[j], "verifyOtp") /\ events[j].result = NoSession
       /\ events[j].email = << "a" >>
       /\ loginEmail = << "A" >>


\* C12: when the prompt is cancelled at any step of the inline login (the
\* email prompt, the first passcode prompt or a retried one) the login ends
\* with no session, nothing is asked of the identity provider afterwards and
\* the navigator is never entered.
C12_CancelAbortsLogin ==
  /\ \A i \in 1..Len(events) :
       IsInput(events[i], "cancelled") =>
          /\ i = Len(events)
          /\ pc = "noSession"
  /\ pc = "noSession" =>
       /\ Len(events) > 0 /\ IsInput(events[Len(events)], "cancelled")
       /\ session = NoSession
       /\ current = NoScreen /\ stack = << >>
       /\ ~isActive
       /\ ~ENABLED LoginNext

C12_Witness ==
  /\ pc = "noSession"
  /\ events[Len(events)] = Entered("codeRetry", "cancelled")
  /\ \E i \in 1..Len(events) : IsIdp(events[i], "verifyOtp")


-----------------------------------------------------------------------------
(* handleMessageThread on any state of its parameter type *)

\* The message-thread states: as handleMessages pushes them, and with the
\* optional fields present.
ThreadStates ==
  LET fresh == MessageThreadScreen("t1", << "T", "1" >>) IN
  {fresh} \cup
  { [WriteBack(fresh, m, t) EXCEPT !.needsRefresh = n] :
      m \in MessageLists, t \in {<< "T", "1" >>, << "T", "x" >>}, n \in BOOLEAN }

ThreadInit ==
  /\ pc = "nav"
  /\ NoPrompt
  /\ isTTY \in BOOLEAN
  /\ isActive = isTTY
  /\ configured = TRUE
  /\ persist = TRUE
  /\ clientInit = TRUE
  /\ session = "s1"
  /\ currentSession = session
  /\ sessionFile = session
  /\ stack = << HomeScreen(session), MessagesScreen >>
  /\ current \in ThreadStates
  /\ quit = FALSE
  /\ lastAction = Push(current)
  /\ lastCall = NoCall
  /\ tMessages = << >>
  /\ tTitle = << >>
  /\ seenKeys = {}
  /\ conversationBuffer = << >>
  /\ cachedId = "none"
  /\ loginEmail = << >>
  /\ events = << >>
  /\ pushed = << >>
  /\ nBack = 0
  /\ shape = "pushes"
  /\ steps = 0

ThreadNext == ThreadEnter \/ ThreadPrompt

ThreadSpec == ThreadInit /\ [][ThreadNext]_vars

\* C13: entered on a state with needsRefresh false and a non-empty cached
\* messages array, handleMessageThread makes no fetch before its first
\* render: it shows the cached messages and title and prompts.
C13_CachedThreadNotFetched ==
  (/\ lastCall.handler = "message-thread"
   /\ lastCall.phase = "enter"
   /\ current.messages # << >>
   /\ ~current.needsRefresh) =>
     /\ lastCall.loads = << >>
     /\ pc = "thread"
     /\ tMessages = current.messages
     /\ tTitle = current.title

C13_Witness ==
  /\ lastCall.handler = "message-thread"
  /\ lastCall.phase = "enter"
  /\ current.messages = << M1, M2 >>
  /\ ~current.needsRefresh
  /\ lastCall.loads = << >>
  /\ tMessages = << M1, M2 >>


-----------------------------------------------------------------------------
(* Properties of the message thread under the navigator *)

\* C14, as the specification words it: when a thread that was left with
\* /back or /home, its message cache written to its state, is entered again
\* through the navigator, the handler runs on that cached state and makes no
\* fetch.
C14_ReentryUsesCache ==
  (/\ lastCall.handler = "message-thread"
   /\ lastCall.phase \in {"enter", "leave"}
   /\ lastCall.reentry) =>
     /\ lastCall.loads = << >>
     /\ lastCall.state.messages # << >>

\* What the navigator does instead: every entry of a thread is on a state
\* without messages, and fetches.
C14_EveryEntryFetches ==
  (/\ lastCall.handler = "message-thread"
   /\ lastCall.phase = "enter") =>
     /\ lastCall.loads = << "ok" >>
     /\ current.messages = << >>
     /\ current.totalMessages = -1

C14_Witness ==
  /\ lastCall.handler = "message-thread"
  /\ lastCall.phase = "enter"
  /\ lastCall.reentry
  /\ current.threadId = "t1"
  /\ current.messages = << >>
  /\ lastCall.loads = << "ok" >>


\* C15, as the specification words it: every exit of handleMessageThread
\* (Back, Home, Quit, a cancelled prompt and the exit on a failed initial
\* fetch) has written messages, totalMessages and title to its state and
\* cleared needsRefresh.
C15_EveryExitWritesBack ==
  (lastCall.handler = "message-thread" /\ lastCall.phase = "leave") =>
     /\ lastCall.state.totalMessages = Len(lastCall.state.messages)
     /\ ~lastCall.state.needsRefresh

\* What the handler does: the exits from the prompt loop write the state, the
\* exit on a failed initial fetch leaves it as it was.
C15_LoopExitsWriteBack ==
  (lastCall.handler = "message-thread" /\ lastCall.phase = "leave") =>
     IF lastCall.loads = << >>
       THEN /\ lastCall.state.totalMessages = Len(lastCall.state.messages)
            /\ ~lastCall.state.needsRefresh
            /\ lastAction.type \in {"back", "home", "quit"}
       ELSE /\ lastCall.loads = << "fail" >>
            /\ lastAction = Back
            /\ lastCall.state \in ThreadStates

C15_Witness ==
  /\ lastCall.handler = "message-thread"
  /\ lastCall.phase = "leave"
  /\ lastCall.loads = << "fail" >>
  /\ lastCall.state.needsRefresh
  /\ lastCall.state.messages = << M1 >>
  /\ lastAction = Back


\* ---------------------------------------------------------------------------
\* Polling for replies after a sent message

\* The poll of the round of the prompt loop that has just sent a message.
HasPolled ==
  /\ lastCall.handler = "message-thread"
  /\ lastCall.phase = "loop"
  /\ Len(lastCall.calls) = 2
  /\ lastCall.calls[2].op = "pollForAgentReplies"
ThePoll == lastCall.calls[2]
Grew(poll, i) == poll.fetches[i] > poll.baseline
Unchanged(poll, i) == poll.fetches[i] # Failed /\ ~Grew(poll, i)

\* C16, as stated: after a sent message the poll makes at most 8 fetches and
\* stops only when a fetched thread has more messages than the baseline or
\* all 8 attempts have been made.
C16_StopsOnlyOnGrowthOrExhaustion ==
  HasPolled =>
    LET n == Len(ThePoll.fetches) IN
      /\ n <= 8
      /\ n >= 1 /\ (Grew(ThePoll, n) \/ n = 8)

\* C16, as the code has it: after a sent message the poll makes at least one
\* and at most 8 fetches, goes on after every fetch that succeeded without
\* showing more messages than the baseline, and stops at the first fetch that
\* shows more, at the first fetch that fails, or after the 8th fetch.
C16_StopsOnGrowthFailureOrExhaustion ==
  HasPolled =>
    LET n == Len(ThePoll.fetches) IN
      /\ n >= 1 /\ n <= 8
      /\ \A i \in 1..(n - 1) : Unchanged(ThePoll, i)
      /\ Grew(ThePoll, n) \/ ThePoll.fetches[n] = Failed \/ n = 8
      /\ ThePoll.new > 0 <=> Grew(ThePoll, n)

\* A poll after the second message of a thread that stopped at its first
\* fetch, which failed, with 7 attempts left.
C16_Witness ==
  /\ HasPolled
  /\ ThePoll.baseline = 2
  /\ Len(ThePoll.fetches) = 1
  /\ ThePoll.fetches[1] = Failed
  /\ ThePoll.new = 0


\* What a round of the prompt loop shows the user of an error: an error
\* status on the toolbar or an error rendered on the screen.
ShowsError == \E i \in 1..Len(lastCall.shown) : lastCall.shown[i] \in {"error", "api-error"}
PollFailed == HasPolled /\ \E i \in 1..Len(ThePoll.fetches) : ThePoll.fetches[i] = Failed

\* C17: a failed fetch of the reply poll counts as "no new messages": the
\* message list holds the sent message and nothing after it, no error status
\* is shown and no error is rendered, and the handler is back at the prompt
\* of the same thread.
C17_PollFailureIsNoNewMessages ==
  PollFailed =>
    /\ ThePoll.new = 0
    /\ Len(tMessages) = ThePoll.baseline
    /\ ~ShowsError
    /\ lastCall.shown = << "success" >>
    /\ pc = "thread" /\ ~quit
    /\ current = lastCall.state
    /\ ENABLED ThreadPrompt

\* A failed first fetch of the poll after a first message sent in a thread.
C17_Witness ==
  /\ PollFailed
  /\ ThePoll.fetches = << Failed >>
  /\ Len(tMessages) = 1


\* A poll whose first 8 fetches all succeeded without showing more messages
\* than the baseline.
PollExhausted ==
  /\ HasPolled
  /\ Len(ThePoll.fetches) >= 8
  /\ \A i \in 1..8 : Unchanged(ThePoll, i)

\* C18: when a message is sent and 8 fetches of the reply poll show nothing
\* beyond the baseline, the poll ends there, the message list holds the sent
\* message and nothing after it, and the handler prompts again in the same
\* thread without showing an error.
C18_ExhaustedPollAppendsNothing ==
  PollExhausted =>
    /\ Len(ThePoll.fetches) = 8
    /\ ThePoll.new = 0
    /\ Len(tMessages) = ThePoll.baseline
    /\ tMessages[Len(tMessages)] \in SentMessages
    /\ ~ShowsError
    /\ pc = "thread" /\ ~quit
    /\ current = lastCall.state
    /\ ENABLED ThreadPrompt

\* An exhausted poll after a second message of a thread.
C18_Witness ==
  /\ PollExhausted
  /\ ThePoll.baseline = 2
  /\ Len(tMessages) = 2


\* ---------------------------------------------------------------------------
\* getMessageKey over one fetched list

\* Messages a fetch may hold: with an id, with the id of another message, with
\* everything but the id of another message, without an id, without id, date
\* and content, with an id that reads like a fallback key, and with a content
\* longer than the slice the fallback key takes.
KeyMessages ==
  { M1,
    ChatMessage(<< "m", "1" >>, << "d", "1" >>, << "h", "i", "!" >>),
    ChatMessage(<< "m", "2" >>, << "d", "1" >>, << "h", "i" >>),
    ChatMessage(<< >>, << "d", "1" >>, << "h", "i" >>),
    ChatMessage(<< >>, Null, << >>),
    ChatMessage(<< "u", "n", "k", "n", "o", "w", "n", ":", "0", ":",
                   "c", "o", "n", "t", "e", "n", "t" >>, << "d", "1" >>,
                << "h", "i" >>),
    ChatMessage(<< >>, << "d", "1" >>, [i \in 1..(KeySlice + 1) |-> "x"]) }

KeyLists == UNION { [1..n -> KeyMessages] : n \in 0..MaxFetched }

\* What printMessagesStartingAt(0) has done so far: the key of each message
\* it has come to, and the positions it has printed.
Printing(keys, printed) ==
  [handler |-> "printMessagesStartingAt", loads |-> << >>, calls |-> << >>,
   keys |-> keys, printed |-> printed]

KeyInit ==
  /\ pc = "print"
  /\ NoPrompt
  /\ isTTY \in BOOLEAN
  /\ isActive = isTTY
  /\ configured = TRUE
  /\ persist = TRUE
  /\ clientInit = TRUE
  /\ currentSession = "s1"
  /\ sessionFile = "s1"
  /\ session = "s1"
  /\ stack = << HomeScreen(session), MessagesScreen >>
  /\ current = MessageThreadScreen("t1", << "T", "1" >>)
  /\ quit = FALSE
  /\ lastAction = Pending
  /\ lastCall = Printing(<< >>, << >>)
  /\ tMessages \in KeyLists
  /\ tTitle = << "T", "1" >>
  /\ seenKeys = {}
  /\ conversationBuffer = << >>
  /\ cachedId = "none"
  /\ loginEmail = << >>
  /\ events = << >>
  /\ pushed = << >>
  /\ nBack = 0
  /\ shape = "pushes"
  /\ steps = 0

\* One turn of the loop of printMessagesStartingAt: printMessage(messages[i], i).
PrintMessage ==
  /\ pc = "print"
  /\ Len(lastCall.keys) < Len(tMessages)
  /\ LET i == Len(lastCall.keys)
         key == GetMessageKey(tMessages[i + 1], i)
     IN /\ seenKeys' = seenKeys \cup {key}
        /\ lastCall' = Printing(Append(lastCall.keys, key),
                                IF key \in seenKeys THEN lastCall.printed
                                ELSE Append(lastCall.printed, i))
  /\ UNCHANGED << pc, envVars, promptVars, authVars, session, stack, current, quit,
                  isActive, lastAction, tMessages, tTitle, conversationBuffer,
                  cachedId, loginVars, histVars >>

KeyNext == PrintMessage
KeySpec == KeyInit /\ [][KeyNext]_vars

IdsPresent == \A i \in 1..Len(tMessages) : tMessages[i].id # << >>
IdsDiffer ==
  \A i, j \in 1..Len(tMessages) : i # j => tMessages[i].id # tMessages[j].id

\* C19, as stated: over a fetched list in which every message has an id, no
\* two distinct messages get the same key.
C19_InjectiveWhereIdsPresent ==
  (pc = "print" /\ IdsPresent) =>
    \A i, j \in 1..Len(lastCall.keys) :
      tMessages[i] # tMessages[j] => lastCall.keys[i] # lastCall.keys[j]

\* C19, as the code has it: over a fetched list in which every message has
\* an id, two messages get the same key exactly when they have the same id;
\* so where the ids are pairwise different the keys are too, and every
\* message is printed.
C19_InjectiveWhereIdsDiffer ==
  (pc = "print" /\ IdsPresent) =>
    /\ \A i, j \in 1..Len(lastCall.keys) :
         lastCall.keys[i] = lastCall.keys[j] <=> tMessages[i].id = tMessages[j].id
    /\ IdsDiffer =>
         /\ \A i, j \in 1..Len(lastCall.keys) :
              i # j => lastCall.keys[i] # lastCall.keys[j]
         /\ lastCall.printed = [i \in 1..Len(lastCall.keys) |-> i - 1]

\* A list of three messages with three ids, two of them alike in all but the
\* id, keyed to its end.
C19_Witness ==
  /\ pc = "print"
  /\ Len(tMessages) = 3 /\ Len(lastCall.keys) = 3
  /\ IdsPresent /\ IdsDiffer
  /\ tMessages[1] = M1
  /\ tMessages[2] = [M1 EXCEPT !.id = << "m", "2" >>]


\* ---------------------------------------------------------------------------
\* FixedBottomToolbar.promptUser and the input-reading resources it opens

\* The code path of a promptUser call: "question" when the output is not a
\* TTY (lines 170-185), "raw" when the input can be put in raw mode (lines
\* 247-304), "line" otherwise (lines 305-318).
PromptPath == IF ~isTTY THEN "question" ELSE IF stdinTTY THEN "raw" ELSE "line"

\* The record of a promptUser call: pending until its promise is resolved.
PromptRecord(path, ended, value) == [path |-> path, ended |-> ended, value |-> value]
IsPending(i) == prompts[i].ended = "pending"
PendingPrompt == Len(prompts) > 0 /\ IsPending(Len(prompts))

\* resolve(value) of the call in progress.
ResolvePrompt(ended, value) ==
  prompts' = [prompts EXCEPT ![Len(prompts)] =
                PromptRecord(prompts[Len(prompts)].path, ended, value)]

PromptInit ==
  /\ pc = "prompt"
  /\ isTTY \in BOOLEAN
  /\ isActive = isTTY
  /\ configured = TRUE
  /\ persist = TRUE
  /\ clientInit = TRUE
  /\ currentSession = "s1"
  /\ sessionFile = "s1"
  /\ session = "s1"
  /\ stack = << >>
  /\ current = HomeScreen(session)
  /\ quit = FALSE
  /\ lastAction = NoAction
  /\ lastCall = NoCall
  /\ tMessages = << >>
  /\ tTitle = << >>
  /\ seenKeys = {}
  /\ conversationBuffer = << >>
  /\ cachedId = "none"
  /\ loginEmail = << >>
  /\ events = << >>
  /\ pushed = << >>
  /\ nBack = 0
  /\ shape = "pushes"
  /\ steps = 0
  /\ stdinTTY \in BOOLEAN
  /\ rawMode = FALSE
  /\ readlines = {}
  /\ dataListeners = {}
  /\ sigintListeners = {}
  /\ inputBuffer = << >>
  /\ prompts = << >>
  /\ toolbar = IdleToolbar
  /\ handlerPath = << >>
  /\ serverThread = AnyServer

PromptFrame ==
  UNCHANGED << pc, envVars, isActive, authVars, session, navVars, threadVars,
               loginVars, histVars, stdinTTY, toolbarVars, serverVars >>

\* promptUser is called (lines 169-319, up to the return of the promise).
PromptUser ==
  /\ pc = "prompt"
  /\ ~PendingPrompt
  /\ Len(prompts) < MaxPrompts
  /\ LET id == Len(prompts) + 1 IN
       /\ prompts' = Append(prompts, PromptRecord(PromptPath, "pending", << >>))
       /\ readlines' = readlines \cup {id}
       /\ inputBuffer' = << >>
       /\ IF PromptPath = "raw"
            THEN /\ rawMode' = TRUE
                 /\ dataListeners' = dataListeners \cup {id}
                 /\ sigintListeners' = sigintListeners \cup {id}
            ELSE UNCHANGED << rawMode, dataListeners, sigintListeners >>
  /\ PromptFrame

\* The cleanup function of a raw prompt (lines 292-297), by its effect on the
\* listeners of 'data'.
PromptCleanup(id) == dataListeners \ {id}

\* rl.close() of a raw prompt: the interface is closed and its 'close'
\* listener, cleanup, runs.
ClosePrompt(id) ==
  /\ readlines' = readlines \ {id}
  /\ dataListeners' = PromptCleanup(id)
  /\ rawMode' = FALSE

\* A chunk arrives on process.stdin while handleKeypress listens (lines
\* 251-284): Ctrl+C, Enter, Backspace, a printable character or another key.
Keys == {"ctrl-c", "enter", "backspace", "a", " ", "other"}
HandleKeypress ==
  /\ pc = "prompt"
  /\ PendingPrompt
  /\ Len(prompts) \in dataListeners
  /\ \E key \in Keys :
       LET id == Len(prompts) IN
       CASE key = "ctrl-c" ->
              /\ ClosePrompt(id)
              /\ ResolvePrompt("ctrl-c", Cancelled)
              /\ UNCHANGED << inputBuffer, sigintListeners >>
         [] key = "enter" ->
              /\ ClosePrompt(id)
              /\ ResolvePrompt("enter", Trim(inputBuffer))
              /\ UNCHANGED << inputBuffer, sigintListeners >>
         [] key = "backspace" ->
              /\ inputBuffer' = IF Len(inputBuffer) > 0
                                  THEN SubSeq(inputBuffer, 1, Len(inputBuffer) - 1)
                                  ELSE inputBuffer
              /\ UNCHANGED << rawMode, readlines, dataListeners, sigintListeners,
                              prompts >>
         [] key \in {"a", " "} ->
              /\ Len(inputBuffer) < MaxTyped
              /\ inputBuffer' = Append(inputBuffer, key)
              /\ UNCHANGED << rawMode, readlines, dataListeners, sigintListeners,
                              prompts >>
         [] key = "other" ->
              UNCHANGED << rawMode, readlines, dataListeners, sigintListeners,
                           inputBuffer, prompts >>
  /\ PromptFrame

\* The lines a prompt without raw mode may read.
TypedLines == { << >>, << "a" >>, << " ", "a" >>, << "a", " " >> }

\* The readline interface of a prompt without raw mode reads a line: the
\* callback of rl.question (lines 176-179) or the 'line' listener (lines
\* 307-311).
ReadLine ==
  /\ pc = "prompt"
  /\ PendingPrompt
  /\ prompts[Len(prompts)].path \in {"question", "line"}
  /\ \E answer \in TypedLines :
       /\ readlines' = readlines \ {Len(prompts)}
       /\ ResolvePrompt("line", IF prompts[Len(prompts)].path = "line"
                                  THEN Trim(answer) ELSE answer)
  /\ UNCHANGED << rawMode, dataListeners, sigintListeners, inputBuffer >>
  /\ PromptFrame

\* The readline interface of a "line" prompt, which treats its input as a
\* terminal, reads Ctrl+C and emits 'SIGINT' (lines 313-317).  The interface
\* of a "question" prompt is not a terminal and emits none.
ReadlineSigint ==
  /\ pc = "prompt"
  /\ PendingPrompt
  /\ prompts[Len(prompts)].path = "line"
  /\ readlines' = readlines \ {Len(prompts)}
  /\ ResolvePrompt("readline-sigint", Cancelled)
  /\ UNCHANGED << rawMode, dataListeners, sigintListeners, inputBuffer >>
  /\ PromptFrame

\* The process receives the signal SIGINT.  Every listener attached by a raw
\* prompt runs its cleanup and resolve(null) (lines 301-304), which resolves
\* the prompt in progress and does nothing to a promise already resolved;
\* without a listener the signal ends the process.
ProcessSigint ==
  /\ pc = "prompt"
  /\ IF sigintListeners = {}
       THEN /\ pc' = "killed"
            /\ UNCHANGED << rawMode, dataListeners, prompts >>
       ELSE /\ dataListeners' = dataListeners \ sigintListeners
            /\ rawMode' = FALSE
            /\ IF PendingPrompt /\ Len(prompts) \in sigintListeners
                 THEN ResolvePrompt("signal", Cancelled)
                 ELSE UNCHANGED prompts
            /\ UNCHANGED pc
  /\ UNCHANGED << envVars, isActive, authVars, session, navVars, threadVars,
                  loginVars, histVars, stdinTTY, readlines, sigintListeners,
                  inputBuffer, toolbarVars, serverVars >>

\* The input stream ends while a prompt without raw mode waits.  readline
\* hands a line that was left unfinished to its 'line' listeners, here the
\* callback of rl.question or the 'line' listener, and closes the interface;
\* promptUser listens to no 'close', so with nothing left unfinished nothing
\* resolves the promise.
InputEnd ==
  /\ pc = "prompt"
  /\ PendingPrompt
  /\ prompts[Len(prompts)].path \in {"question", "line"}
  /\ pc' = "inputEnded"
  /\ readlines' = readlines \ {Len(prompts)}
  /\ \E rest \in TypedLines :
       IF rest # << >>
         THEN ResolvePrompt("line", IF prompts[Len(prompts)].path = "line"
                                      THEN Trim(rest) ELSE rest)
         ELSE UNCHANGED prompts
  /\ UNCHANGED << envVars, isActive, authVars, session, navVars, threadVars,
                  loginVars, histVars, stdinTTY, rawMode, dataListeners,
                  sigintListeners, inputBuffer, toolbarVars, serverVars >>

PromptNext ==
  \/ PromptUser \/ HandleKeypress \/ ReadLine \/ ReadlineSigint
  \/ ProcessSigint \/ InputEnd
PromptSpec == PromptInit /\ [][PromptNext]_vars

Finished(i) == i \in 1..Len(prompts) /\ ~IsPending(i)
CancelledPrompt(i) == prompts[i].ended \in {"ctrl-c", "signal", "readline-sigint"}

\* C20, as stated: after any number of promptUser calls, each ended by
\* submission or by cancellation, every cancelled call has returned null and
\* no finished call has its readline interface open, its listener of 'data'
\* on stdin attached or its listener of SIGINT attached.
C20_FinishedPromptsLeaveNothing ==
  pc = "prompt" =>
    \A i \in 1..Len(prompts) :
      Finished(i) =>
        /\ CancelledPrompt(i) => prompts[i].value = Cancelled
        /\ i \notin readlines
        /\ i \notin dataListeners
        /\ i \notin sigintListeners

\* What the code keeps: every cancelled call has returned null, no finished
\* call has its listener of 'data' attached, and a call that ended by a key
\* or a line has its readline interface closed; the SIGINT listener of a raw
\* prompt stays attached once the prompt is over, and a raw prompt ended by
\* the signal keeps its readline interface open.
C20_WhatFinishedPromptsLeave ==
  pc = "prompt" =>
    \A i \in 1..Len(prompts) :
      /\ Finished(i) =>
           /\ CancelledPrompt(i) => prompts[i].value = Cancelled
           /\ i \notin dataListeners
           /\ i \in readlines <=> prompts[i].ended = "signal"
      /\ i \in sigintListeners <=> prompts[i].path = "raw"

\* Three raw prompts, one submitted, one cancelled by Ctrl+C and one
\* cancelled by the signal, all over.
C20_Witness ==
  /\ pc = "prompt"
  /\ Len(prompts) = 3
  /\ prompts[1].ended = "enter" /\ prompts[1].value = << "a" >>
  /\ prompts[2].ended = "ctrl-c"
  /\ prompts[3].ended = "signal"
  /\ sigintListeners = {1, 2, 3}
  /\ readlines = {3}


\* C21, as stated: in non-interactive mode a prompt does not stay pending
\* once the input stream has ended; it has resolved, and with null unless an
\* unfinished line was left to submit.
C21_EndOfInputResolvesPrompt ==
  (pc = "inputEnded" /\ ~isTTY) =>
    /\ ~PendingPrompt
    /\ prompts[Len(prompts)].ended # "line" => prompts[Len(prompts)].value = Cancelled

\* What the code does: after the end of the input the interface of the
\* prompt is closed, and the prompt has resolved exactly when an unfinished
\* line was left, with that line; otherwise it is pending, and no step of
\* promptUser is left that could resolve it.
C21_EndOfInputLeavesPromptPending ==
  pc = "inputEnded" =>
    /\ Len(prompts) \notin readlines
    /\ \/ PendingPrompt
       \/ prompts[Len(prompts)].ended = "line" /\ prompts[Len(prompts)].value # Cancelled
    /\ ~ENABLED PromptNext

\* The input of a non-interactive run ended under its second prompt, which
\* is still pending.
C21_Witness ==
  /\ pc = "inputEnded"
  /\ ~isTTY
  /\ Len(prompts) = 2
  /\ prompts[2].path = "question"
  /\ PendingPrompt


-----------------------------------------------------------------------------
(* One answer on every screen: what each handler makes of a given line *)

\* What a handler did with the line in inputBuffer: besides the loads and the
\* calls, the payload its fetch returned and the statuses it showed.
Answered(handler, fetched, did) ==
  [handler |-> handler, loads |-> did.loads, calls |-> did.calls,
   fetched |-> fetched, shown |-> did.shown]

\* handleScreen (interactive.ts 106-127) on a screen whose prompt returns the
\* line in inputBuffer, followed by the navigator's step on the action.
Answer(fetched, did) ==
  /\ Navigate(current, did.action)
  /\ lastCall' = Answered(current.type, fetched, did)
  /\ UNCHANGED << envVars, promptVars, authVars, session, threadVars, loginVars,
                  histVars >>

NothingFetched == Resolved(<< >>)

\* The screens an answer is given on, each above the screens it was reached by.
CommandScreens(s) ==
  { HomeScreen(s), PinboardScreen, PinboardDetailScreen("p1"), TeammatesScreen,
    MessagesScreen, MessageThreadScreen(Thread1.id, Thread1.title), FilesScreen,
    SettingsScreen }
StackUnder(screen, s) ==
  CASE screen.type = "home" -> << >>
    [] screen.type = "pinboard-detail" -> << HomeScreen(s), PinboardScreen >>
    [] screen.type = "message-thread" -> << HomeScreen(s), MessagesScreen >>
    [] OTHER -> << HomeScreen(s) >>

CommandInit ==
  /\ pc = "command"
  /\ isTTY = TRUE
  /\ isActive = isTTY
  /\ configured = TRUE
  /\ persist = TRUE
  /\ clientInit = TRUE
  /\ session \in Sessions
  /\ currentSession = session
  /\ sessionFile = session
  /\ current \in CommandScreens(session)
  /\ stack = StackUnder(current, session)
  /\ quit = FALSE
  /\ lastAction = NoAction
  /\ lastCall = NoCall
  /\ tMessages = IF current.type = "message-thread" THEN << M1 >> ELSE << >>
  /\ tTitle = IF current.type = "message-thread" THEN current.title ELSE << >>
  /\ seenKeys = FirstRender(tMessages).seen
  /\ conversationBuffer = << >>
  /\ cachedId = "none"
  /\ loginEmail = << >>
  /\ events = << >>
  /\ pushed = << >>
  /\ nBack = 0
  /\ shape = "pushes"
  /\ steps = 0
  /\ stdinTTY = TRUE
  /\ rawMode = FALSE
  /\ readlines = {}
  /\ dataListeners = {}
  /\ sigintListeners = {}
  /\ prompts = << >>
  /\ toolbar = IdleToolbar
  /\ handlerPath = << >>
  /\ serverThread = AnyServer
  /\ inputBuffer \in Lines \cup {Cancelled}

Unanswered == pc = "command" /\ lastCall = NoCall

HomeAnswer ==
  /\ Unanswered /\ current.type = "home"
  /\ Answer(NothingFetched, HandleHome(current, inputBuffer))

PinboardAnswer ==
  /\ Unanswered /\ current.type = "pinboard"
  /\ \E fetched \in Outcomes(PostLists), detail \in {"ok", "fail"} :
       Answer(fetched, HandlePinboard(current, fetched, inputBuffer, detail))

PinboardDetailAnswer ==
  /\ Unanswered /\ current.type = "pinboard-detail"
  /\ Answer(NothingFetched, HandlePinboardDetail(current, inputBuffer))

TeammatesAnswer ==
  /\ Unanswered /\ current.type = "teammates"
  /\ \E fetched \in Outcomes(AgentCatalogs),
        managed \in {"ok", "refused", "fail"} :
       Answer(fetched, HandleTeammates(current, fetched, inputBuffer, managed))

MessagesAnswer ==
  /\ Unanswered /\ current.type = "messages"
  /\ \E fetched \in Outcomes(ThreadLists),
        created \in Outcomes(CreatedThreads), done \in {"ok", "fail"} :
       Answer(fetched,
              HandleMessages(current, fetched, inputBuffer, created, done))

ThreadAnswer ==
  /\ Unanswered /\ current.type = "message-thread"
  /\ UNCHANGED << envVars, promptVars, authVars, session, loginVars, histVars >>
  /\ ThreadRound(ThreadCommand(inputBuffer))

FilesAnswer ==
  /\ Unanswered /\ current.type = "files"
  /\ \E fetched \in {"ok", "fail"} :
       Answer(NothingFetched, HandleFiles(current, fetched, inputBuffer))

SettingsAnswer ==
  /\ Unanswered /\ current.type = "settings"
  /\ \E profile \in {"ok", "fail"}, preferences \in {"ok", "fail"} :
       Answer(NothingFetched,
              HandleSettings(current, profile, preferences, inputBuffer))

CommandNext ==
  \/ HomeAnswer
  \/ PinboardAnswer
  \/ PinboardDetailAnswer
  \/ TeammatesAnswer
  \/ MessagesAnswer
  \/ ThreadAnswer
  \/ FilesAnswer
  \/ SettingsAnswer

CommandSpec == CommandInit /\ [][CommandNext]_vars

-----------------------------------------------------------------------------
(* Global commands *)

\* The handler prompted and the prompt returned a line.
Asked ==
  /\ lastCall # NoCall
  /\ inputBuffer # Cancelled
  /\ \A i \in 1..Len(lastCall.loads) : lastCall.loads[i] # "fail"

Lowered == ToLowerCase(Trim(inputBuffer))

GlobalCommandHonoured ==
  /\ Lowered = SlashQuit => lastAction = Quit
  /\ Lowered = SlashBack => lastAction = Back
  /\ Lowered = SlashHome => lastAction = Home

\* C22: on every screen, Home included, a line whose trimmed, lower-cased form
\* is exactly /quit, /back or /home yields the Quit, Back or Home action.
C22_GlobalCommandsOnEveryScreen == Asked => GlobalCommandHonoured

\* What the handlers do: every screen but Home honours the three commands;
\* handleHome knows /quit only and answers /back and /home as unknown options,
\* staying on Home with an error status.
C22_GlobalCommandsExceptOnHome ==
  Asked =>
    IF lastCall.handler # "home" THEN GlobalCommandHonoured
    ELSE /\ Lowered = SlashQuit => lastAction = Quit
         /\ Lowered \in {SlashBack, SlashHome} =>
              /\ lastAction = Stay
              /\ lastCall.shown = << Status("error", "Unknown option.") >>
              /\ current.type = "home"

C22_Witness ==
  /\ Asked
  /\ lastCall.handler = "home"
  /\ inputBuffer = << "/", "B", "a", "c", "k" >>
  /\ lastAction = Stay


-----------------------------------------------------------------------------
(* Teammates: add and remove *)

\* The handler prompted on Teammates and the line is an add or a remove.
TeammatesCommand ==
  /\ Asked
  /\ lastCall.handler = "teammates"
  /\ Command(inputBuffer) \in {WordAdd, WordRemove}

\* What follows the command word.
Target == Trim(Join(Tail(SplitSpaces(Lowered)), << " " >>))

\* The target is the numeral of a position in a list of n entries.
IsIndex(target, n) ==
  LET k == NumberOf(target)
  IN target # << >> /\ ~k.nan /\ k.int /\ k.value >= 1 /\ k.value <= n

\* The target begins with the numeral of a position, as parseInt reads it.
HasLeadingIndex(target, n) ==
  LET k == ParseInt(target)
  IN target # << >> /\ ~k.nan /\ k.value >= 1 /\ k.value <= n

IsAgentKey(target, agents) ==
  \E i \in 1..Len(agents) : ToLowerCase(agents[i].key) = target

ManagesAgent(agent) ==
  /\ Len(lastCall.calls) = 1
  /\ lastCall.calls[1].op = "manageAgent"
  /\ lastCall.calls[1].arg.key = agent.key

NoAgentFound ==
  /\ lastCall.shown = << Status("error", "No matching agent found.") >>
  /\ lastAction = StayOn(TeammatesScreen)
  /\ current = TeammatesScreen
  /\ lastCall.calls = << >>

\* C23: "add k" or "remove k" with 1 <= k <= n resolves to the k-th agent of
\* the fetched catalog; a target that is neither a valid index nor a
\* case-insensitive match of an agent key yields "No matching agent found"
\* and a Stay on the same screen, with no network call.
C23_TargetIsIndexOrKey ==
  TeammatesCommand =>
    LET agents == lastCall.fetched.payload IN
    /\ IsIndex(Target, Len(agents)) =>
         ManagesAgent(agents[NumberOf(Target).value])
    /\ (~IsIndex(Target, Len(agents)) /\ ~IsAgentKey(Target, agents)) =>
         NoAgentFound

\* What resolveAgentTarget does: a target that begins with a numeral in 1..n
\* is taken for that position whatever follows the numeral; only a target
\* without such a beginning that matches no key finds no agent.
C23_TargetIsLeadingIndexOrKey ==
  TeammatesCommand =>
    LET agents == lastCall.fetched.payload IN
    /\ HasLeadingIndex(Target, Len(agents)) =>
         ManagesAgent(agents[ParseInt(Target).value])
    /\ (~HasLeadingIndex(Target, Len(agents)) /\ ~IsAgentKey(Target, agents)) =>
         NoAgentFound

C23_Witness ==
  /\ TeammatesCommand
  /\ inputBuffer = << "a", "d", "d", " ", "2", "x" >>
  /\ lastCall.fetched.payload = << Zed, Adam, Bo >>
  /\ ManagesAgent(Adam)


\* The manage-agent call was made and ended in the given way.
Managed(outcome) ==
  /\ TeammatesCommand
  /\ Len(lastCall.calls) = 1
  /\ lastCall.calls[1].outcome = outcome

\* C24: after an add or remove the Teammates handler returns Stay on the
\* Teammates screen whether the manage-agent call succeeds, answers
\* success=false or fails, and the outcome is on the status line.
C24_TeammatesAlwaysStays ==
  TeammatesCommand =>
    /\ lastAction = StayOn(TeammatesScreen)
    /\ current = TeammatesScreen
    /\ pc = "nav"
    /\ Managed("ok") =>
         /\ Len(lastCall.shown) = 1
         /\ lastCall.shown[1].kind = "success"
    /\ (Managed("refused") \/ Managed("fail")) =>
         lastCall.shown = << Status("error", "Operation failed.") >>

C24_Witness ==
  /\ Managed("refused")
  /\ lastAction = StayOn(TeammatesScreen)
  /\ lastCall.shown = << Status("error", "Operation failed.") >>


-----------------------------------------------------------------------------
(* MessagesList: numeric selection *)

\* The handler prompted on MessagesList and the line is an integer numeral.
MessagesNumeric ==
  /\ Asked
  /\ lastCall.handler = "messages"
  /\ Trim(inputBuffer) # << >>
  /\ ~NumberOf(Trim(inputBuffer)).nan
  /\ NumberOf(Trim(inputBuffer)).int

Selected == NumberOf(Trim(inputBuffer)).value

InvalidThreadSelection ==
  /\ lastCall.shown = << Status("error", "Invalid thread selection.") >>
  /\ lastAction = StayOn(MessagesScreen)
  /\ current = MessagesScreen

PushesThread(id, title) ==
  /\ lastAction.type = "push"
  /\ lastAction.screen.type = "message-thread"
  /\ lastAction.screen.threadId = id
  /\ lastAction.screen.title = title
  /\ current = lastAction.screen

\* C25: with n fetched threads a numeral k outside 1..n yields "Invalid
\* thread selection" and Stay, and a numeral k within 1..n pushes a
\* MessageThread screen with the id and the title of the k-th thread.
C25_NumeralSelectsThread ==
  MessagesNumeric =>
    LET threads == lastCall.fetched.payload IN
    IF Selected < 1 \/ Selected > Len(threads) THEN InvalidThreadSelection
    ELSE PushesThread(threads[Selected].id, threads[Selected].title)

\* The same, with the title the handler gives the screen: the thread's title,
\* or for a thread without title its agent keys joined by ", ".
C25_NumeralSelectsThreadByDisplayTitle ==
  MessagesNumeric =>
    LET threads == lastCall.fetched.payload IN
    IF Selected < 1 \/ Selected > Len(threads) THEN InvalidThreadSelection
    ELSE PushesThread(threads[Selected].id,
                      IF threads[Selected].title # << >>
                        THEN threads[Selected].title
                        ELSE Join(threads[Selected].agent_keys, << ",", " " >>))

C25_Witness ==
  /\ MessagesNumeric
  /\ lastCall.fetched.payload = << Thread2, Thread1 >>
  /\ Selected = 1
  /\ PushesThread(Thread2.id, Adam.key \o << ",", " " >> \o Zed.key)


-----------------------------------------------------------------------------
(* The toolbar, call by call: layout.ts and the calls the handlers make *)

\* A faulty variant, to compare against: the interval is left running.
HideSpinnerKeepsInterval(t) == t

\* hideSpinner: the interval is cleared, loadingText is kept.
HideSpinner(t) == [t EXCEPT !.spinner = FALSE]

\* showSpinner on a TTY: the interval starts; it writes to the status line
\* only, with the cursor saved and restored.
ShowSpinner(t) ==
  [HideSpinner(t) EXCEPT !.spinner = TRUE, !.loadingText = "text",
                         !.issued = @ + 1]

\* clearSpinner
ClearSpinner(t) == [HideSpinner(t) EXCEPT !.loadingText = "null"]

\* showSuccess and showError on a TTY: the message and a newline are written
\* at the cursor, and a callback is scheduled that is never cancelled.
ShowStatus(t) ==
  LET id == t.issued + 1 IN
  [HideSpinner(t) EXCEPT !.issued = id, !.messages = @ \cup {id},
                         !.timers = @ \cup {id},
                         !.above = Line("message", id)]

\* renderContent on a TTY: the screen is cleared and the content written,
\* the cursor left under it.
RenderContent(t) == [t EXCEPT !.messages = {}, !.above = Line("content", 0)]

\* promptUser on a TTY up to its wait: the three toolbar lines are drawn and
\* the cursor is put on the prompt line, under the status line.
DrawPrompt(t) == [t EXCEPT !.above = Line("status", 0)]

\* promptUser on a TTY when the line is in: the cursor goes under the toolbar.
LeavePrompt(t) == [t EXCEPT !.above = Line("help", 0)]

\* The callback of showSuccess and showError, two seconds on: the cursor
\* goes up one line, that line is cleared, and a newline brings the cursor
\* back. The callbacks run in the order they were scheduled.
Revert(t) ==
  LET m == CHOOSE id \in t.timers : \A other \in t.timers : id <= other IN
  [t EXCEPT !.timers = @ \ {m},
            !.messages = IF t.above.kind = "message" THEN @ \ {t.above.id} ELSE @,
            !.reverted = [by |-> m, line |-> t.above, superseded |-> t.issued > m],
            !.above = Line("cleared", 0)]

\* setHelpText(hint) and resetHelpText(), which interactive.ts calls and the
\* layout.ts at hand does not have: the help line is the hint, or the default.
SetHelpText(t) == [t EXCEPT !.helpText = "hint"]
ResetHelpText(t) == [t EXCEPT !.helpText = "default"]

\* One call on the toolbar. Without a TTY the spinner and the statuses are
\* plain writes: no interval, no callback, nothing redrawn.
ToolbarCalled(op, t) ==
  CASE op = "setHelpText" -> SetHelpText(t)
    [] op = "resetHelpText" -> ResetHelpText(t)
    [] ~isTTY -> t
    [] op = "showSpinner" -> ShowSpinner(t)
    [] op = "hideSpinner" -> HideSpinner(t)
    [] op = "clearSpinner" -> ClearSpinner(t)
    [] op \in {"showSuccess", "showError"} -> ShowStatus(t)
    [] op = "renderContent" -> RenderContent(t)
    [] op = "promptUser" -> DrawPrompt(t)

\* The ways through a body: a beginning followed by one of several ends.
After(beginning, ends) == { beginning \o end : end \in ends }

Loading == << "setHelpText", "showSpinner", "await" >>
Loaded == << "clearSpinner", "renderContent", "promptUser" >>
Returns == << "resetHelpText", "return" >>
LoadFailed == << "showError", "renderContent" >> \o Returns
Complains == << "showError", "renderContent" >> \o Returns

\* handleHome: no help text of its own
HomePaths ==
  { << "renderContent", "promptUser", "return" >>,
    << "renderContent", "promptUser", "showError", "renderContent", "return" >> }

\* handlePinboard
PinboardPaths ==
  { Loading \o LoadFailed }
    \cup After(Loading \o Loaded,
               { Returns, Complains,
                 << "showSpinner", "await", "clearSpinner" >> \o Returns,
                 << "showSpinner", "await" >> \o LoadFailed })

\* handlePinboardDetail: try and finally without catch
PinboardDetailPaths ==
  { << "setHelpText", "renderContent", "promptUser" >> \o Returns,
    << "setHelpText", "resetHelpText", "throw" >> }

\* handleTeammates
TeammatesPaths ==
  { Loading \o LoadFailed }
    \cup After(Loading \o Loaded,
               { Returns, Complains,
                 << "showSpinner", "await", "showSuccess" >> \o Returns,
                 << "showSpinner", "await" >> \o Complains })

\* handleMessages with createNewThread and handleThreadMaintenance
MessagesPaths ==
  { Loading \o LoadFailed }
    \cup After(Loading \o Loaded \o << "clearSpinner" >>,
               { Returns, Complains,
                 << "showSpinner", "await", "showSuccess" >> \o Returns,
                 << "showSpinner", "await" >> \o Complains,
                 << "showSpinner", "await", "clearSpinner", "showSuccess" >>
                   \o Returns,
                 << "showSpinner", "await", "clearSpinner" >> \o Complains })

\* handleFiles and handleSettings
FilesPaths ==
  { Loading \o << "clearSpinner" >> \o LoadFailed,
    Loading \o Loaded \o Returns }

\* One round of handleMessageThread's loop, from its prompt on.
ThreadRoundPaths ==
  After(<< "promptUser" >>,
        { << >>,
          << "showSpinner", "await", "clearSpinner", "showSuccess",
             "renderContent" >>,
          << "showSpinner", "await", "clearSpinner", "renderContent" >>,
          << "showSpinner", "await", "clearSpinner", "showError",
             "renderContent", "showError", "renderContent" >>,
          << "showSpinner", "await", "clearSpinner", "showError",
             "renderContent" >>,
          << "showSpinner", "await", "clearSpinner", "showSuccess", "await",
             "renderContent", "showSpinner", "await", "clearSpinner" >>,
          << "showSpinner", "await", "clearSpinner", "showSuccess", "await",
             "renderContent", "showSpinner", "await", "renderContent",
             "clearSpinner" >> })

\* handleMessageThread: the first render (lines 802-815) is under no try, so
\* an error thrown there leaves at once; every return goes through finalize.
ThreadPaths ==
  { Loading \o << "clearSpinner" >> \o LoadFailed,
    Loading \o << "clearSpinner", "throw" >> }
    \cup { entry \o << "renderContent" >> \o rounds \o << "promptUser" >>
                \o Returns :
              entry \in { Loading \o << "clearSpinner" >>, << "setHelpText" >> },
              rounds \in { << >> } \cup ThreadRoundPaths }

\* runInlineLogin and runInlineLoginOtpStep
LoginPaths ==
  After(<< "renderContent", "promptUser" >>,
        { << "return" >>,
          << "showSpinner", "await", "showError", "await", "renderContent",
             "renderContent", "promptUser", "return" >> }
          \cup After(<< "showSpinner", "await", "clearSpinner", "await",
                        "renderContent", "promptUser" >>,
                     { << "return" >>,
                       << "showSpinner", "await", "hideSpinner", "await",
                          "renderContent", "return" >>,
                       << "showSpinner", "await", "showError", "await",
                          "renderContent", "promptUser", "return" >> }))

Handlers == {"login", "home", "pinboard", "pinboard-detail", "teammates",
             "messages", "message-thread", "files", "settings"}

HandlerPaths(handler) ==
  CASE handler = "login" -> LoginPaths
    [] handler = "home" -> HomePaths
    [] handler = "pinboard" -> PinboardPaths
    [] handler = "pinboard-detail" -> PinboardDetailPaths
    [] handler = "teammates" -> TeammatesPaths
    [] handler = "messages" -> MessagesPaths
    [] handler = "message-thread" -> ThreadPaths
    [] handler \in {"files", "settings"} -> FilesPaths

ToolbarInit ==
  /\ pc = "toolbar"
  /\ isTTY \in BOOLEAN
  /\ isActive = isTTY
  /\ configured = TRUE
  /\ persist = TRUE
  /\ clientInit = TRUE
  /\ currentSession = "s1"
  /\ sessionFile = "s1"
  /\ session = "s1"
  /\ stack = << >>
  /\ current = HomeScreen(session)
  /\ quit = FALSE
  /\ lastAction = NoAction
  /\ lastCall = NoCall
  /\ tMessages = << >>
  /\ tTitle = << >>
  /\ seenKeys = {}
  /\ conversationBuffer = << >>
  /\ cachedId = "none"
  /\ loginEmail = << >>
  /\ events = << >>
  /\ pushed = << >>
  /\ nBack = 0
  /\ shape = "pushes"
  /\ steps = 0
  /\ NoPrompt

ToolbarFrame ==
  UNCHANGED << envVars, isActive, authVars, session, stack, current, quit,
               lastAction, threadVars, loginVars, pushed, nBack, shape,
               stdinTTY, rawMode, readlines, dataListeners, sigintListeners,
               inputBuffer, prompts, serverVars >>

Waiting == handlerPath # << >> /\ Head(handlerPath) \in {"await", "awaitInput"}

\* A handler is called: the login flow first if at all, a screen otherwise.
StartHandler ==
  /\ pc = "toolbar" /\ handlerPath = << >> /\ steps < MaxHandlerRuns
  /\ \E handler \in Handlers :
       /\ handler = "login" => steps = 0
       /\ \E path \in HandlerPaths(handler) : handlerPath' = path
       /\ lastCall' = [handler |-> handler, loads |-> << >>, calls |-> << >>]
  /\ steps' = steps + 1
  /\ UNCHANGED << pc, toolbar >>
  /\ ToolbarFrame

\* The handler makes its next call on the toolbar; promptUser then waits.
ToolbarCall ==
  /\ pc = "toolbar" /\ handlerPath # << >>
  /\ Head(handlerPath) \notin {"await", "awaitInput", "return", "throw"}
  /\ toolbar' = ToolbarCalled(Head(handlerPath), toolbar)
  /\ handlerPath' = IF Head(handlerPath) = "promptUser"
                      THEN << "awaitInput" >> \o Tail(handlerPath)
                      ELSE Tail(handlerPath)
  /\ UNCHANGED << pc, lastCall, steps >>
  /\ ToolbarFrame

\* What the handler waits for arrives: the answer of a call or the end of a
\* pause, or the line of the prompt.
Resume ==
  /\ pc = "toolbar" /\ Waiting
  /\ toolbar' = IF Head(handlerPath) = "awaitInput" /\ isTTY
                  THEN LeavePrompt(toolbar) ELSE toolbar
  /\ handlerPath' = Tail(handlerPath)
  /\ UNCHANGED << pc, lastCall, steps >>
  /\ ToolbarFrame

\* While the handler waits, the oldest pending callback of showSuccess or
\* showError runs.
RevertFires ==
  /\ pc = "toolbar" /\ Waiting
  /\ toolbar.timers # {}
  /\ toolbar' = Revert(toolbar)
  /\ UNCHANGED << pc, lastCall, steps, handlerPath >>
  /\ ToolbarFrame

HandlerReturns ==
  /\ pc = "toolbar" /\ handlerPath # << >> /\ Head(handlerPath) = "return"
  /\ handlerPath' = << >>
  /\ UNCHANGED << pc, lastCall, steps, toolbar >>
  /\ ToolbarFrame

\* The error leaves handleScreen and the navigator loop with it.
HandlerThrows ==
  /\ pc = "toolbar" /\ handlerPath # << >> /\ Head(handlerPath) = "throw"
  /\ handlerPath' = << >>
  /\ pc' = "crashed"
  /\ UNCHANGED << lastCall, steps, toolbar >>
  /\ ToolbarFrame

ToolbarNext ==
  \/ StartHandler
  \/ ToolbarCall
  \/ Resume
  \/ RevertFires
  \/ HandlerReturns
  \/ HandlerThrows

ToolbarSpec == ToolbarInit /\ [][ToolbarNext]_vars

-----------------------------------------------------------------------------
(* The spinner and the prompt *)

Prompting == handlerPath # << >> /\ Head(handlerPath) = "awaitInput"

\* C26: in every state in which promptUser waits for input no spinner
\* interval is running.
C26_NoSpinnerWhilePrompting == Prompting => ~toolbar.spinner

C26_Witness ==
  /\ Prompting
  /\ isTTY
  /\ lastCall.handler = "teammates"
  /\ steps = 2
  /\ toolbar.loadingText = "null"
  /\ toolbar.issued >= 3
  /\ ~toolbar.spinner


-----------------------------------------------------------------------------
(* The statuses and their callbacks *)

\* A callback of showSuccess or showError has run.
Reverted == toolbar.reverted.by # 0

\* C27: when a status message was superseded by another status call before
\* its callback ran, the callback clears no newer status and no other line
\* of the terminal: at most the line of its own message.
C27_SupersededRevertLeavesOtherLinesAlone ==
  (Reverted /\ toolbar.reverted.superseded) =>
    toolbar.reverted.line \in { Line("message", toolbar.reverted.by),
                                Line("cleared", 0) }

\* What the callback does: it is never cancelled, and it clears the line
\* above the cursor whatever that line holds when it runs; while promptUser
\* waits that is the status line of the toolbar.
C27_PendingRevertsAreKept ==
  /\ toolbar.timers \subseteq 1..toolbar.issued
  /\ (~isTTY) => toolbar.timers = {} /\ ~Reverted
  /\ (Reverted /\ Prompting /\ toolbar.above = Line("cleared", 0)) =>
       toolbar.reverted.line.kind \in {"status", "cleared"}

C27_Witness ==
  /\ Reverted
  /\ Prompting
  /\ toolbar.reverted.superseded
  /\ toolbar.reverted.line = Line("status", 0)
  /\ toolbar.reverted.by < toolbar.issued


-----------------------------------------------------------------------------
(* The help line *)

\* The handler called last has been left, by a return or by a thrown error.
Exited == lastCall # NoCall /\ handlerPath = << >>
Thrown == Exited /\ pc = "crashed"

\* C28: whenever a handler that set the help line returns an action or
\* leaves through a thrown error, the help line is back to its default.
C28_HelpTextResetOnEveryExit == Exited => toolbar.helpText = "default"

\* What the handlers do: every return resets the help line, and so does an
\* error thrown out of a handler with a finally block; handleMessageThread
\* resets in finalize only, which a thrown error passes by.
C28_HelpTextResetExceptWhenThreadThrows ==
  Exited =>
    IF Thrown /\ lastCall.handler = "message-thread"
      THEN toolbar.helpText = "hint"
      ELSE toolbar.helpText = "default"

C28_Witness ==
  /\ Thrown
  /\ lastCall.handler = "message-thread"
  /\ toolbar.helpText = "hint"


-----------------------------------------------------------------------------
(* The auth bridge on its own: the calls a process makes on it, in any order *)

AuthInit ==
  /\ pc = "auth"
  /\ NoPrompt
  /\ isTTY = TRUE
  /\ isActive = FALSE
  /\ configured = TRUE
  /\ persist \in BOOLEAN
  \* A fresh process: no client yet, and whatever an earlier one has stored.
  /\ clientInit = FALSE
  /\ currentSession = NoSession
  /\ sessionFile \in Sessions \cup {NoSession, Unusable}
  /\ session = NoSession
  /\ stack = << >>
  /\ current = NoScreen
  /\ quit = FALSE
  /\ lastAction = NoAction
  /\ lastCall = NoCall
  /\ tMessages = << >>
  /\ tTitle = << >>
  /\ seenKeys = {}
  /\ conversationBuffer = << >>
  /\ cachedId = "none"
  /\ loginEmail = << >>
  /\ events = << >>
  /\ pushed = << >>
  /\ nBack = 0
  /\ shape = "pushes"
  /\ steps = 0

\* A call on the bridge has ended: the module state is as it left it, and
\* lastCall tells which call it was, what it asked the provider and whether
\* it threw.
AuthCalled(op, r) ==
  /\ pc = "auth" /\ steps < MaxAuthCalls
  /\ SetAuth(r.auth)
  /\ lastCall' = [handler |-> op, loads |-> << IF r.threw THEN "fail" ELSE "ok" >>,
                  calls |-> r.events]
  /\ steps' = steps + 1
  /\ UNCHANGED << pc, envVars, isActive, session, stack, current, quit,
                  lastAction, threadVars, loginVars, pushed, nBack, shape,
                  promptVars >>

GetClient ==
  \E restored \in SessionOutcomes :
    AuthCalled("getSupabaseClient", GetSupabaseClient(AuthState, restored))

SendCode ==
  \E restored \in SessionOutcomes, answer \in {"ok", "error"} :
    AuthCalled("sendOtp", SendOtp(AuthState, restored, << "a" >>, answer))

VerifyCode ==
  \E restored \in SessionOutcomes, answer \in SessionOutcomes :
    AuthCalled("verifyOtp",
               VerifyOtp(AuthState, restored, << "a" >>, << "1" >>, answer))

Refresh ==
  \E restored \in SessionOutcomes, answer \in SessionOutcomes :
    AuthCalled("refreshSession", RefreshSession(AuthState, restored, answer))

SignOff ==
  \E restored \in SessionOutcomes, answer \in {"ok", "error"} :
    AuthCalled("signOut", SignOut(AuthState, restored, answer))

\* The provider reports a change of the session to the listener.
AuthStateChanged ==
  /\ clientInit
  /\ \E s \in Sessions \cup {NoSession} :
       AuthCalled("onAuthStateChange",
                  [auth |-> OnAuthStateChange(AuthState, s), events |-> << >>,
                   threw |-> FALSE])

AuthNext ==
  \/ GetClient
  \/ SendCode
  \/ VerifyCode
  \/ Refresh
  \/ SignOff
  \/ AuthStateChanged

AuthSpec == AuthInit /\ [][AuthNext]_vars

-----------------------------------------------------------------------------
(* The session in memory and the session file *)

Succeeded(ops) ==
  lastCall.handler \in ops /\ lastCall.loads = << "ok" >>

FileMatchesMemory == (sessionFile # NoSession) <=> (currentSession # NoSession)

\* The call that ended last restored the stored session, with this result.
Restored(results) ==
  \E i \in 1..Len(lastCall.calls) :
    /\ lastCall.calls[i].op = "setSession"
    /\ lastCall.calls[i].result \in results

\* C29: after every successful send-code, verify-code, refresh or sign-out
\* with caching enabled, the session file exists exactly when the session in
\* memory is not null.
C29_FileMatchesMemoryAfterAuthCall ==
  (persist /\ Succeeded({"sendOtp", "verifyOtp", "refreshSession", "signOut"}))
    => FileMatchesMemory

\* What the bridge does: verifyOtp and signOut always write both; sendOtp
\* writes neither and refreshSession writes only a session it got, so after
\* them the two differ where a restore that got neither an error nor a
\* session has left the stored file in place.
C29_FileMatchesMemoryAfterVerifyAndSignOut ==
  /\ (persist /\ Succeeded({"verifyOtp", "signOut"})) => FileMatchesMemory
  /\ (persist /\ Succeeded({"sendOtp", "refreshSession"}) /\ ~FileMatchesMemory)
       => sessionFile # NoSession /\ currentSession = NoSession

C29_Witness ==
  /\ persist
  /\ Succeeded({"sendOtp"})
  /\ Restored({NoSession})
  /\ sessionFile # NoSession
  /\ currentSession = NoSession

\* The first call of getSupabaseClient has ended, and with it the attempt to
\* restore the stored session; no session came of it.
RestoreFailed ==
  /\ lastCall.handler = "getSupabaseClient"
  /\ steps = 1
  /\ currentSession = NoSession

\* C30: after a successful sign-out, and after a restore in which the stored
\* session could not be used, the session file is gone and the session in
\* memory is null.
C30_SessionDestroyedOnSignOutAndFailedRestore ==
  persist =>
    /\ Succeeded({"signOut"}) =>
         sessionFile = NoSession /\ currentSession = NoSession
    /\ RestoreFailed => sessionFile = NoSession

\* What the bridge does: sign-out and a restore that setSession answers with
\* an error delete the file; a restore that gets no session and no error,
\* or finds no usable session in the file, leaves the file where it is.
C30_SessionDestroyedOnSignOutAndRestoreError ==
  persist =>
    /\ Succeeded({"signOut"}) =>
         sessionFile = NoSession /\ currentSession = NoSession
    /\ (RestoreFailed /\ Restored({"error"})) => sessionFile = NoSession
    /\ (RestoreFailed /\ Restored({NoSession})) => sessionFile \in Sessions
    /\ (RestoreFailed /\ lastCall.calls = << >>) =>
         sessionFile \in {NoSession, Unusable}

C30_Witness ==
  /\ persist
  /\ RestoreFailed
  /\ lastCall.calls = << >>
  /\ sessionFile = Unusable


-----------------------------------------------------------------------------
(* Session caching disabled *)

\* The call that ended last asked the provider to take over a stored session,
\* which it does only after reading the session file.
ReadStoredSession(call) ==
  \E i \in 1..Len(call.calls) : call.calls[i].op = "setSession"

\* C31: with session caching disabled, no client initialisation, restore,
\* verify, refresh, sign-out or auth-state change reads, writes or deletes the
\* session file; only the session in memory changes.
C31_NoFileAccessWhenCachingDisabled ==
  [][~persist => (sessionFile' = sessionFile /\ ~ReadStoredSession(lastCall'))]_vars

C31_Witness ==
  /\ ~persist
  /\ Succeeded({"verifyOtp"})
  /\ currentSession \in Sessions
  /\ sessionFile \in Sessions
  /\ sessionFile # currentSession


-----------------------------------------------------------------------------
(* Bare words *)

WordBack == << "b", "a", "c", "k" >>
WordB == << "b" >>
WordExit == << "e", "x", "i", "t" >>
WordQuit == << "q", "u", "i", "t" >>

\* C32: on any screen, the bare word back or b returns to the previous
\* screen, and the bare word exit or quit leaves the CLI.
C32_BareWordsNavigate ==
  Asked =>
    /\ Lowered \in {WordBack, WordB} => lastAction = Back
    /\ Lowered \in {WordExit, WordQuit} => lastAction = Quit

\* What the handlers do: isQuit and isBack know the slash forms only, so no
\* bare word ever leaves the CLI, and a bare word goes back only on the
\* screens that go back on any input.
C32_BareWordsAreNotCommands ==
  (Asked /\ Lowered \in {WordBack, WordB, WordExit, WordQuit}) =>
    /\ lastAction # Quit
    /\ ~quit
    /\ lastAction = Back <=>
         lastCall.handler \in {"pinboard-detail", "settings"}

C32_Witness ==
  /\ Asked
  /\ lastCall.handler = "home"
  /\ inputBuffer = WordQuit
  /\ lastAction = Stay
  /\ ~quit


-----------------------------------------------------------------------------
(* The thread view against one server: the thread only grows, every message *)
(* has an id of its own, and every fetch shows the thread as it is          *)

\* The n-th message the server stores.
Msg(n) == ChatMessage(<< "n" >> \o FormatNumber(n), << "d" >>, << "x" >>)
Stored(n) == [i \in 1..n |-> Msg(i)]

\* What fetchChatThread resolves to.
ServerPayload(thread) == [title |-> thread.title, messages |-> thread.messages]
Fetches(thread) == {Resolved(ServerPayload(thread)), Rejected}

\* The server stores one more message: the one sent, or one of another
\* participant.
Grown(thread, n) ==
  [thread EXCEPT !.messages = @ \o [i \in 1..n |-> Msg(Len(thread.messages) + i)]]

\* The thread holds as many messages as these when the view is entered.
StoredCounts == {0, 1, 2, MaxHistory, MaxHistory + 1, MaxHistory + 2}

\* The state the view is entered with: as handleMessages pushes it, or as an
\* earlier visit has left it, with the messages the thread held then.
ViewStates(messages) ==
  LET fresh == MessageThreadScreen("t1", << "T", "1" >>) IN
  {fresh} \cup
  { WriteBack(fresh, SubSeq(messages, 1, k), << "T", "1" >>) :
      k \in {n \in {Len(messages) - 1, Len(messages)} : n >= 1} }

ViewInit ==
  /\ pc = "nav"
  /\ stdinTTY = TRUE
  /\ rawMode = FALSE
  /\ readlines = {}
  /\ dataListeners = {}
  /\ sigintListeners = {}
  /\ inputBuffer = << >>
  /\ prompts = << >>
  /\ toolbar = IdleToolbar
  /\ handlerPath = << >>
  /\ isTTY = TRUE
  /\ isActive = isTTY
  /\ configured = TRUE
  /\ persist = TRUE
  /\ clientInit = TRUE
  /\ session = "s1"
  /\ currentSession = session
  /\ sessionFile = session
  /\ \E n \in StoredCounts : serverThread = OneServer(<< "T", "1" >>, Stored(n))
  /\ stack = << HomeScreen(session), MessagesScreen >>
  /\ current \in ViewStates(serverThread.messages)
  /\ quit = FALSE
  /\ lastAction = Push(current)
  /\ lastCall = NoCall
  /\ tMessages = << >>
  /\ tTitle = << >>
  /\ seenKeys = {}
  /\ conversationBuffer = << >>
  /\ cachedId = "none"
  /\ loginEmail = << >>
  /\ events = << >>
  /\ pushed = << >>
  /\ nBack = 0
  /\ shape = "pushes"
  /\ steps = 0

\* handleMessageThread up to its first prompt.
ViewEnter == ThreadEnterOn(Fetches(serverThread))

\* A round of the prompt loop has steps' = steps + 1.
ViewRound ==
  /\ pc = "thread" /\ steps < MaxViewRounds
  /\ steps' = steps + 1
  /\ UNCHANGED << envVars, uiVars, authVars, session, loginVars, pushed, nBack,
                  shape >>

\* A line that is not a message: the command is carried out, and a refresh
\* fetches the thread as the server holds it.
ViewCommand ==
  /\ ViewRound
  /\ \E command \in {"cancel", "blank", "quit", "home", "back", "refresh"} :
       ThreadRoundOn(command, Fetches(serverThread), {}, {})
  /\ UNCHANGED serverThread

\* A message that the server refuses.
ViewSendFails ==
  /\ ViewRound
  /\ ThreadRoundOn("send", {}, {Rejected}, {<< >>})
  /\ UNCHANGED serverThread

\* A message that the server stores, and the poll for replies: replies
\* arrive before the fetch of attempt at, and the fetch of attempt failing,
\* if the poll gets that far, is rejected.
ViewSend ==
  /\ ViewRound
  /\ \E replies \in 0..MaxReplies,
        at \in {1, PollAttempts, PollAttempts + 1},
        failing \in {1, PollAttempts + 1} :
       LET withSent == Grown(serverThread, 1)
           withReplies == Grown(withSent, replies)
           script == [i \in 1..PollAttempts |->
                        IF i = failing THEN Rejected
                        ELSE IF i < at THEN Resolved(ServerPayload(withSent))
                        ELSE Resolved(ServerPayload(withReplies))]
       IN /\ ThreadRoundOn("send", {},
                           {Resolved(withSent.messages[Len(withSent.messages)])},
                           {script})
          /\ serverThread' = withReplies

\* Another participant's message reaches the server while the view is open.
ServerGrows ==
  /\ pc = "thread"
  /\ Len(serverThread.messages) - Len(tMessages) < MaxAhead
  /\ serverThread' = Grown(serverThread, 1)
  /\ UNCHANGED << pc, envVars, isActive, uiVars, authVars, session, navVars,
                  threadVars, loginVars, histVars >>

ViewNext ==
  \/ ViewEnter
  \/ ViewCommand
  \/ ViewSendFails
  \/ ViewSend
  \/ ServerGrows

ViewSpec == ViewInit /\ [][ViewNext]_vars


-----------------------------------------------------------------------------
(* /refresh in the thread view *)

\* The round that has just ended was a refresh whose fetch succeeded.
RefreshedOk(call) ==
  /\ call.handler = "message-thread"
  /\ call.phase = "loop"
  /\ call.calls = << Call("fetchChatThread", "t1", "ok") >>

\* The blocks of the messages after the first count of them whose key, here
\* always the id, is not among seen.
UnseenBeyond(messages, seen, count) ==
  LET later == SubSeq(messages, count + 1, Len(messages))
      unseen == SelectSeq(later, LAMBDA m : m.id \notin seen)
  IN [i \in 1..Len(unseen) |-> MessageBlock(unseen[i])]

Printed(buffer) == {buffer[i] : i \in 1..Len(buffer)}

\* C33: on /refresh the thread is fetched in full; the messages at positions
\* beyond the previous message count whose keys have not been seen are
\* printed, and nothing else; "No new messages." is shown exactly when there
\* are none; no message printed before in this view is printed again.
C33_RefreshPrintsOnlyNewUnseen ==
  [][(Followed /\ steps' = steps + 1 /\ RefreshedOk(lastCall')) =>
       LET new == UnseenBeyond(tMessages', seenKeys, Len(tMessages)) IN
       /\ tMessages' = serverThread.messages
       /\ conversationBuffer' = conversationBuffer \o new
       /\ (new = << >>) <=> (lastCall'.shown = << "success" >>)
       /\ (new # << >>) <=> (lastCall'.shown = << >>)
       /\ \A i \in 1..Len(new) : new[i] \notin Printed(conversationBuffer)]_vars

\* A refresh finds, beyond the previous count, only a message that the view
\* has printed already, and prints nothing.
C33_Witness ==
  /\ Followed
  /\ RefreshedOk(lastCall)
  /\ lastCall.shown = << "success" >>
  /\ tMessages = Stored(3)
  /\ MessageBlock(Msg(3)) \in Printed(conversationBuffer)
  /\ MessageBlock(Msg(2)) \notin Printed(conversationBuffer)


-----------------------------------------------------------------------------
(* The first render of the thread view *)

\* handleMessageThread has rendered the conversation and is at its first
\* prompt.
FirstRendered ==
  /\ Followed
  /\ lastCall.handler = "message-thread"
  /\ lastCall.phase = "enter"

MessageBlocks(buffer) == SelectSeq(buffer, LAMBDA b : b.kind = "message")

\* C34: the first render of a thread of L messages with distinct keys prints
\* the last min(L, 10) messages, each once and in order; the L - 10 before
\* them are seen without being printed; when L > 10 a notice tells that
\* older messages are left out.
C34_FirstRenderPrintsLastTen ==
  FirstRendered =>
    LET L == Len(tMessages)
        shown == IF L < MaxHistory THEN L ELSE MaxHistory
        hidden == L - shown
    IN /\ MessageBlocks(conversationBuffer) =
            [i \in 1..shown |-> MessageBlock(tMessages[hidden + i])]
       /\ seenKeys = {tMessages[i].id : i \in 1..L}
       /\ (L > MaxHistory) <=>
            (\E i \in 1..Len(conversationBuffer) :
               conversationBuffer[i].kind = "showing-last")
       /\ L > MaxHistory =>
            conversationBuffer[2] =
              [kind |-> "showing-last", shown |-> MaxHistory, of |-> L]

C34_Witness ==
  /\ FirstRendered
  /\ Len(tMessages) = MaxHistory + 2
  /\ Len(MessageBlocks(conversationBuffer)) = MaxHistory
  /\ Len(conversationBuffer) = MaxHistory + 2
  /\ Cardinality(seenKeys) = MaxHistory + 2


-----------------------------------------------------------------------------
(* Input that is no command *)

\* Lines that are neither a global command nor a command of any screen.
UnknownLines ==
  { << "h", "e", "l", "l", "o" >>,
    << "/", "q", "u", "i", "t", " ", "n", "o", "w" >> }

\* A screen that takes commands was given such a line; the thread view takes
\* every other line for a message.
UnknownInput ==
  /\ Asked
  /\ inputBuffer \in UnknownLines
  /\ lastCall.handler # "message-thread"

UnknownCommandShown == lastCall.shown = << Status("error", "Unknown command.") >>

\* C35: on every screen that accepts commands, a non-empty input that is
\* neither a global nor a screen-local command shows "Unknown command" over
\* the same content and yields Stay, never Back, Home, Quit or a Push.
C35_UnknownInputStays ==
  UnknownInput =>
    /\ lastAction.type = "stay"
    /\ current.type = lastCall.handler
    /\ UnknownCommandShown

\* What the handlers do: Teammates and Messages answer as the claim has it;
\* Home and Pinboard stay with an error status of their own and Files stays
\* without any; Pinboard detail and Settings go back on every line that is
\* not /quit or /home.
C35_UnknownInputByScreen ==
  UnknownInput =>
    CASE lastCall.handler \in {"teammates", "messages"} ->
           lastAction.type = "stay" /\ UnknownCommandShown
      [] lastCall.handler = "home" ->
           /\ lastAction.type = "stay"
           /\ lastCall.shown = << Status("error", "Unknown option.") >>
      [] lastCall.handler = "pinboard" ->
           /\ lastAction.type = "stay"
           /\ lastCall.shown =
                << Status("error", "Select a number between 1 and posts.length.") >>
      [] lastCall.handler = "files" ->
           lastAction.type = "stay" /\ lastCall.shown = << >>
      [] lastCall.handler \in {"pinboard-detail", "settings"} ->
           /\ lastAction = Back
           /\ lastCall.shown = << >>
           /\ current.type # lastCall.handler

C35_Witness ==
  /\ UnknownInput
  /\ lastCall.handler = "settings"
  /\ lastAction = Back
  /\ current.type = "home"


-----------------------------------------------------------------------------
(* The shape of the navigator's stack *)

\* C36: in every reachable navigator state the stack is empty whenever Home
\* is current, holds at most two screens and, when not empty, has Home at its
\* bottom; Teammates, Pinboard detail, MessageThread, Files and Settings
\* screens are never on the stack.
C36_StackShape ==
  /\ current.type = "home" => stack = << >>
  /\ Len(stack) <= 2
  /\ stack # << >> => stack[1].type = "home"
  /\ \A i \in 1..Len(stack) :
       stack[i].type \notin {"teammates", "pinboard-detail", "message-thread",
                             "files", "settings"}

C36_Witness ==
  /\ current.type = "pinboard-detail"
  /\ Len(stack) = 2
  /\ stack[1].type = "home"
  /\ stack[2].type = "pinboard"
  /\ lastAction.type = "push"


-----------------------------------------------------------------------------
(* The messages in memory and the messages printed *)

DistinctIds(messages) ==
  \A i, j \in 1..Len(messages) : i # j => messages[i].id # messages[j].id

\* The position in messages of the first message the view printed, or 0 when
\* it has printed none: what comes after it is newer than the initial window.
WindowStart(messages, buffer) ==
  LET blocks == MessageBlocks(buffer) IN
  IF blocks = << >> THEN 0
  ELSE IF \E i \in 1..Len(messages) : messages[i] = blocks[1].message
    THEN CHOOSE i \in 1..Len(messages) : messages[i] = blocks[1].message
  ELSE Len(messages)

\* After a refresh the list in memory is the thread the server answered with.
NothingMissed ==
  RefreshedOk(lastCall) =>
    \A i \in 1..Len(tMessages) :
      i > WindowStart(tMessages, conversationBuffer) =>
        MessageBlock(tMessages[i]) \in Printed(conversationBuffer)

\* C37: in a thread view on a server whose messages have ids of their own,
\* whatever is sent, polled and refreshed, the list in memory never holds two
\* entries with the same id, and every message of the thread fetched last
\* that is newer than the initial window has been printed.
C37_NoDuplicatesNothingMissed ==
  (Followed /\ pc = "thread") =>
    /\ DistinctIds(tMessages)
    /\ NothingMissed

\* What the view does keep: no message is printed twice, and the messages of
\* the server have ids of their own.
C37_NothingPrintedTwice ==
  (Followed /\ pc = "thread") =>
    /\ DistinctIds(serverThread.messages)
    /\ \A i, j \in 1..Len(conversationBuffer) :
         i # j => conversationBuffer[i] # conversationBuffer[j]

\* The view was entered with one message while the server held two; the sent
\* message is in the list twice and the server's second message has not been
\* printed.
C37_Witness ==
  /\ Followed /\ pc = "thread"
  /\ tMessages = << Msg(1), Msg(3), Msg(3) >>
  /\ serverThread.messages = Stored(3)
  /\ MessageBlock(Msg(2)) \notin Printed(conversationBuffer)
  /\ MessageBlock(Msg(3)) \in Printed(conversationBuffer)


-----------------------------------------------------------------------------
(* A send that fails *)

\* The round that has ended called sendChatMessage, which rejected.
SendRejected(call) ==
  /\ call.handler = "message-thread"
  /\ \E i \in 1..Len(call.calls) :
       call.calls[i] = Call("sendChatMessage", "t1", "fail")

\* C38: when sending a message fails, the list in memory and the seen keys
\* are as before, no poll for replies is started, an error status is shown
\* and the handler prompts again in the same thread, returning no action.
C38_FailedSendChangesNothing ==
  [][(Followed /\ steps' = steps + 1 /\ SendRejected(lastCall')) =>
       /\ tMessages' = tMessages
       /\ seenKeys' = seenKeys
       /\ conversationBuffer' = conversationBuffer
       /\ \A i \in 1..Len(lastCall'.calls) :
            lastCall'.calls[i].op # "pollForAgentReplies"
       /\ lastCall'.shown = << "error" >>
       /\ lastCall'.phase = "loop"
       /\ pc' = "thread"
       /\ lastAction' = lastAction
       /\ current' = current
       /\ stack' = stack]_vars

C38_Witness ==
  /\ Followed
  /\ SendRejected(lastCall)
  /\ pc = "thread"
  /\ steps = 1
  /\ tMessages = Stored(2)
  /\ seenKeys = {Msg(1).id, Msg(2).id}
  /\ lastCall.shown = << "error" >>


-----------------------------------------------------------------------------
(* Auth operations that fail *)

\* The call that has ended threw because of what the provider answered: an
\* error, or for verifyOtp no session.
ProviderRefused(call) ==
  /\ call.handler \in {"signOut", "verifyOtp", "refreshSession"}
  /\ call.loads = << "fail" >>
  /\ call.calls # << >>
  /\ LET last == call.calls[Len(call.calls)] IN
     /\ last.op \in {"signOut", "verifyOtp", "getSession"}
     /\ \/ last.result = "error"
        \/ last.op = "verifyOtp" /\ last.result = NoSession

-----------------------------------------------------------------------------
(* The status line of the toolbar at a prompt *)

\* promptUser on a TTY, the top line of the toolbar: the loading text behind
\* a spinner frame when there is one, "Ready" otherwise.
StatusLine(t) == IF t.loadingText # "null" THEN "loading" ELSE "ready"

\* The toolbar is drawn and waits for a line, no interval running.
IdlePrompt == Prompting /\ isTTY /\ ~toolbar.spinner

\* C40: whenever the toolbar is drawn at a prompt while no operation is in
\* progress, its status line shows "Ready": the label of a spinner that has
\* ended, through clearSpinner, hideSpinner, showSuccess or showError, is not
\* shown as loading at a later prompt.
C40_IdlePromptShowsReady == IdlePrompt => StatusLine(toolbar) = "ready"

\* What the code does: a loading text, once set, is dropped by clearSpinner
\* alone; hideSpinner, showSuccess and showError stop the interval and keep
\* the text, which every later prompt shows as loading.
C40_OnlyClearSpinnerDropsTheLabel ==
  [][/\ (toolbar.loadingText # "null" /\ toolbar'.loadingText = "null")
          => (handlerPath # << >> /\ Head(handlerPath) = "clearSpinner")
     /\ (handlerPath # << >> /\ isTTY
           /\ Head(handlerPath) \in {"hideSpinner", "showSuccess", "showError"}
           /\ toolbar' # toolbar)
          => (~toolbar'.spinner /\ toolbar'.loadingText = toolbar.loadingText)]_vars

C40_Witness ==
  /\ IdlePrompt
  /\ StatusLine(toolbar) = "loading"
  /\ lastCall.handler = "login"

=============================================================================
